---- MODULE Spec2Model ----
(***************************************************************************)
(* mongorepo: a generic repository over one MongoDB collection.            *)
(*                                                                         *)
(* The collection is a sequence of documents in natural (insertion)        *)
(* order.  Every repository operation is one action: it computes the       *)
(* requests it sends to the collection, the collection after them and the  *)
(* values it returns, and records them in `last`.  The source tree holds   *)
(* several revisions of some operations; each revision that is modelled    *)
(* is a separate operator and action, named after the file it is in.       *)
(***************************************************************************)
EXTENDS Integers, Sequences, FiniteSets, TLC

VARIABLES
    store,       \* the collection: documents in natural order
    oidCounter,  \* how many identifiers NewObjectID has handed out
    qb,          \* the query builder under construction
    last,        \* what the latest operation did; none when a chain starts
    prev,        \* the call before it that it depends on: a Save or DeleteById
                 \* with what it returned, or the Filter call of the chain
    repo,        \* the repository the caller holds; none before construction
    calls        \* per concurrent caller, the Save or SaveAll call it is in

vars == <<store, oidCounter, qb, last, prev, repo, calls>>

---------------------------------------------------------------------------
(* Bounds of the model.                                                    *)

\* documents a collection holds at most
MaxDocs == 2
\* identifiers primitive.NewObjectID() hands out at most
MaxOid == 2
\* items in one SaveAll call at most
MaxBatch == 2
\* documents a collection holds at most when a query chain starts
MaxColl == 3
\* the largest page index a caller sets
MaxPage == 2
\* the largest page size a caller sets
MaxSize == 5
\* callers that use the repository at the same time
MaxCallers == 2

---------------------------------------------------------------------------
(* Values.                                                                 *)

\* primitive.NilObjectID, the identifier for which IsZero() holds
ZeroID == 0

IsZero(id) == id = ZeroID

\* strings are sequences of lexical tokens (see the text model below)
Names == {<<"Query Test">>, <<"Jane">>}
Ages == {25, 30, 35}

\* the identifiers NewObjectID can return
GeneratedIds == 1..MaxOid

\* the record type T of the tests (TestModel): ID, Name, Age
TestModel(id, name, age) == [ID |-> id, Name |-> name, Age |-> age]

ZeroT == TestModel(ZeroID, <<>>, 0)

\* a stored BSON document: _id, name, age
Doc(id, name, age) == [id |-> id, name |-> name, age |-> age]

\* bson.Marshal of a T under the tags of TestModel: `_id,omitempty` leaves
\* a zero ID out of the document
Marshal(item) ==
    [hasId |-> ~IsZero(item.ID), id |-> item.ID, name |-> item.Name, age |-> item.Age]

\* Decode of a found document into a T: a key the document lacks leaves the
\* field at its zero value
Decode(raw) ==
    [ID   |-> IF "_id" \in raw.has THEN raw.id ELSE ZeroID,
     Name |-> IF "name" \in raw.has THEN raw.name ELSE <<>>,
     Age  |-> IF "age" \in raw.has THEN raw.age ELSE 0]

AllKeys == {"_id", "name", "age"}

Raw(doc, keys) == [has |-> keys, id |-> doc.id, name |-> doc.name, age |-> doc.age]

---------------------------------------------------------------------------
(* Filters (bson.M), sort clauses (bson.D), projections (bson.M).          *)

\* a value: a number, a string, an ObjectID, null, an array of scalars, or
\* an operator document {"$op": value}
NullV == [t |-> "null", i |-> 0, s |-> <<>>, e |-> <<>>]
IntV(n) == [t |-> "int", i |-> n, s |-> <<>>, e |-> <<>>]
StrV(s) == [t |-> "str", i |-> 0, s |-> s, e |-> <<>>]
OidV(id) == [t |-> "oid", i |-> id, s |-> <<>>, e |-> <<>>]
ArrV(elems) == [t |-> "arr", i |-> 0, s |-> <<>>, e |-> elems]
ObjV(key, v) == [t |-> "obj", i |-> 0, s |-> key, e |-> <<v>>]

Cond(field, op, val) == [field |-> field, op |-> op, val |-> val]

\* a nil bson.M, and a bson.M (a map: a set of conditions, one per key)
NilM == [isNil |-> TRUE, conds |-> {}]
M(conds) == [isNil |-> FALSE, conds |-> conds]

IdFilter(id) == M({Cond("_id", "eq", OidV(id))})

FieldValue(doc, field) ==
    CASE field = "_id"  -> OidV(doc.id)
      [] field = "name" -> StrV(doc.name)
      [] field = "age"  -> IntV(doc.age)
      [] OTHER          -> [t |-> "missing", i |-> 0, s |-> <<>>, e |-> <<>>]

\* one condition of a filter against one document: equality needs the same
\* type and value, $gte compares numbers with numbers only
CondHolds(doc, c) ==
    LET v == FieldValue(doc, c.field) IN
    CASE c.op = "eq"  -> v = c.val
      [] c.op = "gte" -> v.t = "int" /\ c.val.t = "int" /\ v.i >= c.val.i
      [] c.op = "in"  -> \E k \in 1..Len(c.val.e) : c.val.e[k] = v
      [] OTHER        -> FALSE

\* a nil or empty filter matches every document
Matches(doc, filter) == \A c \in filter.conds : CondHolds(doc, c)

None == <<>>
Some(x) == <<x>>

---------------------------------------------------------------------------
(* The store collaborator: what each driver call does to a collection.     *)

NoErr == ""
ErrNoDocuments == "mongo: no documents in result"
ErrDuplicateKey == "E11000 duplicate key"

HasId(coll, id) == \E k \in 1..Len(coll) : coll[k].id = id

FirstMatch(coll, filter) ==
    CHOOSE k \in 1..Len(coll) :
        /\ Matches(coll[k], filter)
        /\ \A j \in 1..(k - 1) : ~Matches(coll[j], filter)

AnyMatch(coll, filter) == \E k \in 1..Len(coll) : Matches(coll[k], filter)

RECURSIVE Select(_, _)
Select(coll, filter) ==
    IF coll = <<>> THEN <<>>
    ELSE IF Matches(Head(coll), filter)
         THEN <<Head(coll)>> \o Select(Tail(coll), filter)
         ELSE Select(Tail(coll), filter)

RECURSIVE Reject(_, _)
Reject(coll, filter) ==
    IF coll = <<>> THEN <<>>
    ELSE IF Matches(Head(coll), filter)
         THEN Reject(Tail(coll), filter)
         ELSE <<Head(coll)>> \o Reject(Tail(coll), filter)

\* collection.FindOne(ctx, filter).Decode(&result)
StoreFindOne(coll, filter, keys) ==
    IF AnyMatch(coll, filter)
    THEN [found |-> TRUE, raw |-> Raw(coll[FirstMatch(coll, filter)], keys), err |-> NoErr]
    ELSE [found |-> FALSE, raw |-> Raw(Doc(ZeroID, <<>>, 0), {}), err |-> ErrNoDocuments]

\* collection.ReplaceOne(ctx, {"_id": id}, item, Upsert(true)): the first
\* document with that _id is replaced in place and keeps its _id; with none,
\* the replacement is inserted under the filter's _id
StoreReplaceOneUpsert(coll, id, m) ==
    LET new == Doc(id, m.name, m.age) IN
    IF HasId(coll, id)
    THEN LET k == CHOOSE j \in 1..Len(coll) :
                      coll[j].id = id /\ \A h \in 1..(j - 1) : coll[h].id # id
         IN [coll |-> [coll EXCEPT ![k] = new], upserted |-> None, err |-> NoErr]
    ELSE [coll |-> Append(coll, new), upserted |-> Some(id), err |-> NoErr]

\* collection.InsertOne(ctx, item): a document without _id gets a fresh one
\* from the driver; an _id the collection already holds is refused
StoreInsertOne(coll, m, fresh) ==
    LET id == IF m.hasId THEN m.id ELSE fresh IN
    IF HasId(coll, id)
    THEN [coll |-> coll, inserted |-> ZeroID, err |-> ErrDuplicateKey]
    ELSE [coll |-> Append(coll, Doc(id, m.name, m.age)), inserted |-> id, err |-> NoErr]

\* collection.BulkWrite(ctx, writes) of ReplaceOne-with-upsert models, in
\* order: the collection afterwards and, per write, the upserted _id if the
\* write inserted
RECURSIVE StoreBulkWrite(_, _)
StoreBulkWrite(coll, writes) ==
    IF writes = <<>> THEN [coll |-> coll, upserted |-> <<>>]
    ELSE LET w    == Head(writes)
             r    == StoreReplaceOneUpsert(coll, w.id, w.doc)
             rest == StoreBulkWrite(r.coll, Tail(writes))
         IN [coll |-> rest.coll, upserted |-> <<r.upserted>> \o rest.upserted]

\* collection.DeleteOne(ctx, filter)
StoreDeleteOne(coll, filter) ==
    IF AnyMatch(coll, filter)
    THEN LET k == FirstMatch(coll, filter)
         IN SubSeq(coll, 1, k - 1) \o SubSeq(coll, k + 1, Len(coll))
    ELSE coll

\* collection.CountDocuments(ctx, filter)
StoreCountDocuments(coll, filter) == Len(Select(coll, filter))

---------------------------------------------------------------------------
(* Requests, as the store sees them.                                       *)

Request(kind, ctx, filter) ==
    [kind |-> kind, ctx |-> ctx, filter |-> filter, docs |-> <<>>,
     proj |-> None, sort |-> None, skip |-> None, limit |-> None]

WriteRequest(kind, ctx, filter, docs) ==
    [Request(kind, ctx, filter) EXCEPT !.docs = docs]

\* context.TODO() / context.Background(), and a context of the caller
CtxTODO == "context.TODO"
CtxCaller == "ctx"

\* a QueryBuilder: filter, projection, sort, context, pageable; text and
\* sortText are the `filter string` and the `sort string` that the builder
\* of src/src/querybuilder.go holds
NoBuilder ==
    [made |-> FALSE, filter |-> NilM, projection |-> None, sort |-> None,
     context |-> CtxTODO, pageable |-> <<0, 0>>, text |-> <<>>, sortText |-> <<>>]

---------------------------------------------------------------------------
(* Results of an operation.                                                *)

\* what an operation did: its name, the records or parameters (args) and
\* the identifiers or page numbers (ids) it was called with, the records
\* and the number it returned, its error, the requests it sent, and the
\* collection before it
\* a cursor of the driver as the operation leaves it: was one handed back,
\* is it still open, and how often were its resources released
Cursor(handed, open, released) == [handed |-> handed, open |-> open, released |-> released]

NoCursor == Cursor(FALSE, FALSE, 0)

\* the cursor collection.Find or collection.Aggregate hands back
Opened == Cursor(TRUE, TRUE, 0)

\* cursor.Close: releases the resources of an open cursor; on a closed
\* cursor it does nothing
CursorClose(c) == IF c.open THEN Cursor(c.handed, FALSE, c.released + 1) ELSE c

\* cursor.All: reads every document and closes the cursor when it returns,
\* with or without error
CursorAll(c) == CursorClose(c)

\* where the store fails during an operation: nowhere, in the call that
\* sends the request, while the cursor advances, or while a document is
\* decoded
NoFailure == "none"
CallFails == "call"
CursorFails == "cursor"
DecodeFails == "decode"

\* cursor is the cursor of the operation, none unless the outcome names one;
\* failed is where the store failed during it;
\* caller is what the caller's own arguments hold after the call: what was
\* passed, unless the outcome says the operation wrote through to them
Result(op, args, ids, r, pre) ==
    [op |-> op, args |-> args, ids |-> ids, out |-> r.out, n |-> r.n,
     err |-> r.err, reqs |-> r.reqs, pre |-> pre,
     cursor |-> IF "cursor" \in DOMAIN r THEN r.cursor ELSE NoCursor,
     caller |-> IF "caller" \in DOMAIN r THEN r.caller ELSE args,
     failed |-> NoFailure]

NoResult ==
    [op |-> "none", args |-> <<>>, ids |-> <<>>, out |-> <<>>, n |-> 0,
     err |-> NoErr, reqs |-> <<>>, pre |-> <<>>, cursor |-> NoCursor, caller |-> <<>>,
     failed |-> NoFailure]

\* what an operation hands back: returned records, returned number, error,
\* requests sent, and the collection afterwards
Outcome(out, n, err, reqs, coll) ==
    [out |-> out, n |-> n, err |-> err, reqs |-> reqs, coll |-> coll]

\* the same for Save and SaveAll, with the ObjectID counter afterwards
SaveOutcome(out, err, reqs, coll, ctr) ==
    [out |-> out, n |-> 0, err |-> err, reqs |-> reqs, coll |-> coll, ctr |-> ctr]

\* the outcome r of an operation that leaves the cursor c behind
WithCursor(r, c) ==
    [out |-> r.out, n |-> r.n, err |-> r.err, reqs |-> r.reqs, coll |-> r.coll, cursor |-> c]

\* the outcome r of an operation that received a slice and wrote into its
\* elements: the caller's slice shares them and holds items afterwards
WrittenThrough(r, items) ==
    [out |-> r.out, n |-> r.n, err |-> r.err, reqs |-> r.reqs, coll |-> r.coll,
     ctr |-> r.ctr, caller |-> items]

\* the callers that use one repository at the same time
Callers == 1..MaxCallers

\* a caller and its call: not in a call; in a call that has set the
\* identities and has its request still to send; or back from it. overlapped
\* tells whether another call was in flight when the request was served
Call(pc, op, items, err, overlapped) ==
    [pc |-> pc, op |-> op, items |-> items, err |-> err, overlapped |-> overlapped]

Idle == Call("idle", "none", <<>>, NoErr, FALSE)

NoCalls == [c \in Callers |-> Idle]

\* a failure of the store itself (connectivity, write conflict)
ErrStore == "store error"

\* a panic that ends the caller's goroutine
ErrPanic == "panic"

---------------------------------------------------------------------------
(* Repository operations, src/src/repository.go.                           *)

\* primitive.NewObjectID(): a process-wide counter, never the zero value
NewObjectID(ctr) == ctr + 1

\* Save with the new identifier written to the store but not to the record
\* it returns
Save_staleRecord(coll, ctr, item, fails) ==
    LET fresh == IsZero(item.ID)
        id    == IF fresh THEN NewObjectID(ctr) ELSE item.ID
        it    == [item EXCEPT !.ID = id]
        ctr2  == IF fresh THEN ctr + 1 ELSE ctr
        req   == WriteRequest("ReplaceOneUpsert", CtxTODO, IdFilter(id), <<Marshal(it)>>)
        r     == StoreReplaceOneUpsert(coll, id, Marshal(it))
    IN IF fails
       THEN SaveOutcome(<<item>>, ErrStore, <<req>>, coll, ctr2)
       ELSE SaveOutcome(<<item>>, r.err, <<req>>, r.coll, ctr2)

\* Save that inserts the record instead of replacing the document that
\* carries its identifier
Save_alwaysInsert(coll, ctr, item, fails) ==
    LET fresh == IsZero(item.ID)
        id    == IF fresh THEN NewObjectID(ctr) ELSE item.ID
        it    == [item EXCEPT !.ID = id]
        ctr2  == IF fresh THEN ctr + 1 ELSE ctr
        req   == WriteRequest("InsertOne", CtxTODO, NilM, <<Marshal(it)>>)
    IN IF fails
       THEN SaveOutcome(<<it>>, ErrStore, <<req>>, coll, ctr2)
       ELSE SaveOutcome(<<it>>, NoErr, <<req>>, Append(coll, Doc(id, it.Name, it.Age)), ctr2)

Save(coll, ctr, item, fails) ==
    LET fresh == IsZero(item.ID)
        id    == IF fresh THEN NewObjectID(ctr) ELSE item.ID
        it    == [item EXCEPT !.ID = id]
        ctr2  == IF fresh THEN ctr + 1 ELSE ctr
        req   == WriteRequest("ReplaceOneUpsert", CtxTODO, IdFilter(id), <<Marshal(it)>>)
        r     == StoreReplaceOneUpsert(coll, id, Marshal(it))
    IN IF fails
       THEN SaveOutcome(<<it>>, ErrStore, <<req>>, coll, ctr2)
       ELSE SaveOutcome(<<it>>, r.err, <<req>>, r.coll, ctr2)

\* the loop of SaveAll: every item with a zero ID gets a new ObjectID
RECURSIVE AssignIds(_, _)
AssignIds(items, ctr) ==
    IF items = <<>> THEN [items |-> <<>>, ctr |-> ctr]
    ELSE LET item  == Head(items)
             fresh == IsZero(item.ID)
             id    == IF fresh THEN NewObjectID(ctr) ELSE item.ID
             rest  == AssignIds(Tail(items), IF fresh THEN ctr + 1 ELSE ctr)
         IN [items |-> <<[item EXCEPT !.ID = id]>> \o rest.items, ctr |-> rest.ctr]

ReplaceModels(items) ==
    [k \in 1..Len(items) |-> [id |-> items[k].ID, doc |-> Marshal(items[k])]]

\* mongo.NewReplaceOneModel().SetFilter({_id: id}).SetReplacement(item)
\*     .SetUpsert(true)
ReplaceOneModel(item) ==
    [model |-> "ReplaceOneUpsert", filter |-> IdFilter(item.ID), doc |-> Marshal(item)]

BulkRequest(ctx, items) ==
    WriteRequest("BulkWrite", ctx, NilM, [k \in 1..Len(items) |-> ReplaceOneModel(items[k])])

SaveAll(coll, ctr, items, fails) ==
    LET a   == AssignIds(items, ctr)
        req == BulkRequest(CtxTODO, a.items)
        r   == StoreBulkWrite(coll, ReplaceModels(a.items))
    IN IF fails
       THEN WrittenThrough(SaveOutcome(a.items, ErrStore, <<req>>, coll, a.ctr), a.items)
       ELSE WrittenThrough(SaveOutcome(a.items, NoErr, <<req>>, r.coll, a.ctr), a.items)

FindById(coll, id, fails) ==
    LET req == Request("FindOne", CtxTODO, IdFilter(id))
        r   == StoreFindOne(coll, IdFilter(id), AllKeys)
    IN IF fails
       THEN Outcome(<<ZeroT>>, 0, ErrStore, <<req>>, coll)
       ELSE Outcome(<<Decode(r.raw)>>, 0, r.err, <<req>>, coll)

CountAll(coll, fails) ==
    LET req == Request("CountDocuments", CtxTODO, M({}))
    IN IF fails
       THEN Outcome(<<>>, 0, ErrStore, <<req>>, coll)
       ELSE Outcome(<<>>, StoreCountDocuments(coll, M({})), NoErr, <<req>>, coll)

DeleteById(coll, id, fails) ==
    LET req == Request("DeleteOne", CtxTODO, IdFilter(id))
    IN IF fails
       THEN Outcome(<<>>, 0, ErrStore, <<req>>, coll)
       ELSE Outcome(<<>>, 0, NoErr, <<req>>, StoreDeleteOne(coll, IdFilter(id)))

---------------------------------------------------------------------------
(* Earlier revisions of the same operations.                               *)

\* src/main/repository_test.go: insert when the ID is zero, else upsert
Save_main(coll, ctr, item, fails) ==
    IF IsZero(item.ID)
    THEN LET req == WriteRequest("InsertOne", CtxCaller, NilM, <<Marshal(item)>>)
             r   == StoreInsertOne(coll, Marshal(item), NewObjectID(ctr))
         IN IF fails
            THEN SaveOutcome(<<item>>, ErrStore, <<req>>, coll, ctr)
            ELSE IF r.err # NoErr
                 THEN SaveOutcome(<<item>>, r.err, <<req>>, coll, ctr + 1)
                 ELSE SaveOutcome(<<[item EXCEPT !.ID = r.inserted]>>, NoErr, <<req>>,
                                  r.coll, ctr + 1)
    ELSE LET req == WriteRequest("ReplaceOneUpsert", CtxCaller, IdFilter(item.ID),
                                 <<Marshal(item)>>)
             r   == StoreReplaceOneUpsert(coll, item.ID, Marshal(item))
         IN IF fails
            THEN SaveOutcome(<<item>>, ErrStore, <<req>>, coll, ctr)
            ELSE SaveOutcome(<<item>>, r.err, <<req>>, r.coll, ctr)

\* the second loop of SaveAll in src/repository.go: items[i] gets the _id
\* the bulk write reports as upserted at index i
BackfillUpserted(items, upserted) ==
    [k \in 1..Len(items) |->
        IF upserted[k] # None
        THEN [items[k] EXCEPT !.ID = upserted[k][1]]
        ELSE items[k]]

\* src/repository.go: no identifier is assigned before the write
SaveAll_root(coll, ctr, items, fails) ==
    LET req == BulkRequest(CtxCaller, items)
        r   == StoreBulkWrite(coll, ReplaceModels(items))
    IN IF fails
       THEN SaveOutcome(items, ErrStore, <<req>>, coll, ctr)
       ELSE WrittenThrough(
                SaveOutcome(BackfillUpserted(items, r.upserted), NoErr, <<req>>, r.coll, ctr),
                BackfillUpserted(items, r.upserted))

\* src/unnamed/part_000: the error of Decode is dropped
FindById_part000(coll, id, fails) ==
    LET req == Request("FindOne", CtxTODO, IdFilter(id))
        r   == StoreFindOne(coll, IdFilter(id), AllKeys)
    IN IF fails
       THEN Outcome(<<ZeroT>>, 0, NoErr, <<req>>, coll)
       ELSE Outcome(<<Decode(r.raw)>>, 0, NoErr, <<req>>, coll)

---------------------------------------------------------------------------
(* Text.  A text is a sequence of lexical tokens: the punctuation of JSON, *)
(* the double quote, the backslash, the question mark, single decimal      *)
(* digits, and whole words.                                                *)

Quote == "\""
Backslash == "\\"

DigitTokens == <<"0", "1", "2", "3", "4", "5", "6", "7", "8", "9">>

IsDigit(tok) == \E d \in 1..Len(DigitTokens) : DigitTokens[d] = tok

DigitValue(tok) == (CHOOSE d \in 1..Len(DigitTokens) : DigitTokens[d] = tok) - 1

\* fmt.Sprintf("%d", n) for n >= 0
RECURSIVE Decimal(_)
Decimal(n) ==
    IF n < Len(DigitTokens) THEN <<DigitTokens[n + 1]>>
    ELSE Decimal(n \div Len(DigitTokens)) \o <<DigitTokens[(n % Len(DigitTokens)) + 1]>>

\* does pat occur in text at position i
OccursAt(text, pat, i) ==
    /\ i + Len(pat) - 1 <= Len(text)
    /\ \A k \in 1..Len(pat) : text[i + k - 1] = pat[k]

\* strings.Replace(text, pat, rep, -1): every non-overlapping occurrence,
\* left to right
RECURSIVE ReplaceFrom(_, _, _, _)
ReplaceFrom(text, pat, rep, i) ==
    IF i > Len(text) THEN <<>>
    ELSE IF OccursAt(text, pat, i)
         THEN rep \o ReplaceFrom(text, pat, rep, i + Len(pat))
         ELSE <<text[i]>> \o ReplaceFrom(text, pat, rep, i + 1)

StringsReplaceAll(text, pat, rep) == ReplaceFrom(text, pat, rep, 1)

\* parameters of a template: a number, a string, or a slice of parameters
IntP(n) == [t |-> "int", i |-> n, s |-> <<>>, e |-> <<>>]
StrP(s) == [t |-> "str", i |-> 0, s |-> s, e |-> <<>>]
SliceP(elems) == [t |-> "slice", i |-> 0, s |-> <<>>, e |-> elems]
\* a nil slice: the variadic parameter list of a call without parameters
NilSliceP == [t |-> "nil", i |-> 0, s |-> <<>>, e |-> <<>>]

\* the body of a JSON string: quote and backslash escaped
RECURSIVE JsonEscape(_)
JsonEscape(str) ==
    IF str = <<>> THEN <<>>
    ELSE IF Head(str) \in {Quote, Backslash}
         THEN <<Backslash, Head(str)>> \o JsonEscape(Tail(str))
         ELSE <<Head(str)>> \o JsonEscape(Tail(str))

\* json.Marshal of a number or a string
JsonScalar(p) ==
    IF p.t = "str" THEN <<Quote>> \o JsonEscape(p.s) \o <<Quote>> ELSE Decimal(p.i)

RECURSIVE JsonElems(_)
JsonElems(elems) ==
    IF elems = <<>> THEN <<>>
    ELSE IF Len(elems) = 1 THEN JsonScalar(elems[1])
         ELSE JsonScalar(elems[1]) \o <<",">> \o JsonElems(Tail(elems))

\* json.Marshal of a parameter
JsonMarshal(p) ==
    CASE p.t = "slice" -> <<"[">> \o JsonElems(p.e) \o <<"]">>
      [] p.t = "nil"   -> <<"null">>
      [] OTHER         -> JsonScalar(p)

\* the text a parameter is replaced by: a string between two quotes as it
\* is, anything else as json.Marshal gives it
Replacement(p) ==
    IF p.t = "str" THEN <<Quote>> \o p.s \o <<Quote>> ELSE JsonMarshal(p)

Placeholder(k) == <<"?">> \o Decimal(k)

\* replaceParams: for i = 0.., every "?<i+1>" is replaced by parameter i
RECURSIVE ReplaceParamsFrom(_, _, _)
ReplaceParamsFrom(query, params, k) ==
    IF k > Len(params) THEN query
    ELSE ReplaceParamsFrom(
             StringsReplaceAll(query, Placeholder(k), Replacement(params[k])),
             params, k + 1)

replaceParams(query, params) == ReplaceParamsFrom(query, params, 1)

\* fmt.Sprintf("%v", param): a string as it is, a number in decimal, a
\* slice as its elements between brackets with spaces between them
RECURSIVE SprintElems(_)
SprintElems(elems) ==
    IF elems = <<>> THEN <<>>
    ELSE IF Len(elems) = 1 THEN (IF elems[1].t = "str" THEN elems[1].s ELSE Decimal(elems[1].i))
         ELSE (IF elems[1].t = "str" THEN elems[1].s ELSE Decimal(elems[1].i))
              \o <<" ">> \o SprintElems(Tail(elems))

Sprintv(p) ==
    CASE p.t = "str" -> p.s
      [] p.t = "int" -> Decimal(p.i)
      [] OTHER       -> <<"[">> \o SprintElems(p.e) \o <<"]">>

\* src/simplequery.go, replaceParams: every parameter is written with %v
RECURSIVE ReplaceParamsFrom_simplequery(_, _, _)
ReplaceParamsFrom_simplequery(query, params, k) ==
    IF k > Len(params) THEN query
    ELSE ReplaceParamsFrom_simplequery(
             StringsReplaceAll(query, Placeholder(k), Sprintv(params[k])),
             params, k + 1)

replaceParams_simplequery(query, params) == ReplaceParamsFrom_simplequery(query, params, 1)

---------------------------------------------------------------------------
(* Record types and construction, src/src/repository.go.                   *)

\* a struct field: its Go name, its Go type and the texts of its bson, index
\* and cindex tags; an absent tag is the empty text
StructField(name, type, bson, index, cindex) ==
    [name |-> name, type |-> type, bson |-> bson, index |-> index, cindex |-> cindex]

Space == " "

\* strings.Split(text, sep) for a separator of one token
RECURSIVE SplitFrom(_, _, _, _)
SplitFrom(text, sep, i, part) ==
    IF i > Len(text) THEN <<part>>
    ELSE IF text[i] = sep THEN <<part>> \o SplitFrom(text, sep, i + 1, <<>>)
    ELSE SplitFrom(text, sep, i + 1, Append(part, text[i]))

StringsSplit(text, sep) == SplitFrom(text, sep, 1, <<>>)

RECURSIVE TrimLeft(_)
TrimLeft(text) ==
    IF text # <<>> /\ Head(text) = Space THEN TrimLeft(Tail(text)) ELSE text

RECURSIVE TrimRight(_)
TrimRight(text) ==
    IF text # <<>> /\ text[Len(text)] = Space
    THEN TrimRight(SubSeq(text, 1, Len(text) - 1))
    ELSE text

\* strings.TrimSpace
TrimSpace(text) == TrimRight(TrimLeft(text))

RECURSIVE DigitsValue(_, _)
DigitsValue(digits, acc) ==
    IF digits = <<>> THEN acc
    ELSE DigitsValue(Tail(digits), acc * Len(DigitTokens) + DigitValue(Head(digits)))

Signed(text) == text # <<>> /\ Head(text) \in {"-", "+"}

Unsigned(text) == IF Signed(text) THEN Tail(text) ELSE text

\* strconv.Atoi: an optional sign and at least one digit, nothing else
Atoi(text) ==
    IF Unsigned(text) = <<>> \/ \E k \in 1..Len(Unsigned(text)) : ~IsDigit(Unsigned(text)[k])
    THEN [ok |-> FALSE, n |-> 0]
    ELSE [ok |-> TRUE,
          n  |-> IF Head(text) = "-" THEN 0 - DigitsValue(Unsigned(text), 0)
                 ELSE DigitsValue(Unsigned(text), 0)]

\* MongoRepository[T]: the collection handle and the index of the identity
\* field, for the record type T
Repository(collection, idFieldIndex, T) ==
    [made |-> TRUE, collection |-> collection, idFieldIndex |-> idFieldIndex, T |-> T]

\* no repository (nil)
NoRepo == [made |-> FALSE, collection |-> "", idFieldIndex |-> 0, T |-> <<>>]

ErrNoIdField == "type does not have a field with bson:\"_id\" tag"
ErrUnsupportedIndexTag == "unsupported index tag"
ErrCompoundFormat == "invalid compound index format"
ErrCompoundOrder == "invalid compound index order"
ErrCreateIndex == "failed to create index"

\* does one of the comma-separated values of the field's bson tag, trimmed,
\* equal _id
HasIdTag(field) ==
    /\ field.bson # <<>>
    /\ \E k \in 1..Len(StringsSplit(field.bson, ",")) :
           TrimSpace(StringsSplit(field.bson, ",")[k]) = <<"_id">>

\* setIdField that settles on the first field when no field is tagged
setIdField_first(T) ==
    IF \E i \in 1..Len(T) : HasIdTag(T[i])
    THEN [err |-> NoErr,
          idFieldIndex |-> (CHOOSE i \in 1..Len(T) :
                               HasIdTag(T[i]) /\ \A j \in 1..(i - 1) : ~HasIdTag(T[j])) - 1]
    ELSE [err |-> NoErr, idFieldIndex |-> 0]

\* setIdField: the index of the first such field, or an error
setIdField(T) ==
    IF \E i \in 1..Len(T) : HasIdTag(T[i])
    THEN [err |-> NoErr,
          idFieldIndex |-> (CHOOSE i \in 1..Len(T) :
                               HasIdTag(T[i]) /\ \A j \in 1..(i - 1) : ~HasIdTag(T[j])) - 1]
    ELSE [err |-> ErrNoIdField, idFieldIndex |-> 0]

\* getFieldName: the first value of the bson tag, else the Go name
getFieldName(field) ==
    IF field.bson # <<>> THEN StringsSplit(field.bson, ",")[1] ELSE <<field.name>>

\* a mongo.IndexModel: its keys (a bson.D) and the options set on it
IndexKey(key, kind) == [key |-> key, kind |-> kind]

IndexModel(keys, unique, sparse) == [keys |-> keys, unique |-> unique, sparse |-> sparse]

\* the index of one field while its tokens are read: kind nil, no options
NewIndex == [ok |-> TRUE, kind |-> NullV, unique |-> FALSE, sparse |-> FALSE]

\* the switch of ensureSimpleIndexes on one trimmed token
ApplyToken(ix, tok) ==
    CASE tok = <<"unique">>                        -> [ix EXCEPT !.unique = TRUE]
      [] tok \in {<<"1">>, <<"-", "1">>}           -> [ix EXCEPT !.kind = IntV(Atoi(tok).n)]
      [] tok = <<"sparse">>                        -> [ix EXCEPT !.sparse = TRUE]
      [] tok \in {<<"text">>, <<"2dsphere">>}      -> [ix EXCEPT !.kind = StrV(tok)]
      [] OTHER                                     -> [ix EXCEPT !.ok = FALSE]

\* the loop over the tokens of one index tag; it stops at the first token
\* the switch does not know
RECURSIVE ApplyTokens(_, _)
ApplyTokens(ix, toks) ==
    IF toks = <<>> \/ ~ix.ok THEN ix
    ELSE ApplyTokens(ApplyToken(ix, TrimSpace(Head(toks))), Tail(toks))

IndexOf(field, ix) ==
    IndexModel(<<IndexKey(getFieldName(field), ix.kind)>>, ix.unique, ix.sparse)

\* the loop over the fields: the index models of the fields that carry an
\* index tag, in field order, or the error of the first unknown token
RECURSIVE SimpleIndexes(_, _, _)
SimpleIndexes(T, i, indexes) ==
    IF i > Len(T) THEN [err |-> NoErr, indexes |-> indexes]
    ELSE IF T[i].index = <<>> THEN SimpleIndexes(T, i + 1, indexes)
    ELSE IF ~ApplyTokens(NewIndex, StringsSplit(T[i].index, ",")).ok
         THEN [err |-> ErrUnsupportedIndexTag, indexes |-> <<>>]
    ELSE SimpleIndexes(T, i + 1,
             Append(indexes, IndexOf(T[i], ApplyTokens(NewIndex, StringsSplit(T[i].index, ",")))))

\* what a step of the construction did: its error and the requests it sent
Step(err, reqs) == [err |-> err, reqs |-> reqs]

CtxBackground == "context.Background"

CreateMany(indexes) == WriteRequest("CreateMany", CtxBackground, NilM, indexes)

CreateOne(index) == WriteRequest("CreateOne", CtxTODO, NilM, <<index>>)

\* the end of ensureSimpleIndexes: one CreateMany when there is an index
SimpleIndexesSent(b, fails) ==
    IF b.err # NoErr THEN Step(b.err, <<>>)
    ELSE IF Len(b.indexes) > 0
         THEN Step(IF fails THEN ErrStore ELSE NoErr, <<CreateMany(b.indexes)>>)
         ELSE Step(NoErr, <<>>)

ensureSimpleIndexes(T, fails) == SimpleIndexesSent(SimpleIndexes(T, 1, <<>>), fails)

\* strings.ReplaceAll(text, tok, "")
Without(text, tok) == SelectSeq(text, LAMBDA t : t # tok)

\* a step that failed with a message formatted around a fragment of the
\* annotation (the %s of fmt.Errorf), and the fragment of a step
DetailedStep(err, reqs, frag) == [err |-> err, reqs |-> reqs, frag |-> frag]

DetailOf(x) == IF "frag" \in DOMAIN x THEN x.frag ELSE <<>>

\* the keys of one compound index: every part is field:order
RECURSIVE CompoundKeys(_, _)
CompoundKeys(parts, keys) ==
    IF parts = <<>> THEN [err |-> NoErr, keys |-> keys, frag |-> <<>>]
    ELSE IF Len(StringsSplit(Head(parts), ":")) # 2
         THEN [err |-> ErrCompoundFormat, keys |-> <<>>, frag |-> Head(parts)]
    ELSE IF ~Atoi(StringsSplit(Head(parts), ":")[2]).ok
         THEN [err |-> ErrCompoundOrder, keys |-> <<>>,
               frag |-> StringsSplit(Head(parts), ":")[2]]
    ELSE CompoundKeys(Tail(parts),
             Append(keys, IndexKey(StringsSplit(Head(parts), ":")[1],
                                   IntV(Atoi(StringsSplit(Head(parts), ":")[2]).n))))

\* the loop over the groups: each group is parsed and then requested with
\* one CreateOne, before the next group is read; failAt is the number of
\* the request of this construction that the store fails (0: none)
RECURSIVE CompoundIndexes(_, _, _, _)
CompoundIndexes(groups, reqs, sent, failAt) ==
    IF groups = <<>> THEN Step(NoErr, reqs)
    ELSE IF CompoundKeys(StringsSplit(Head(groups), ","), <<>>).err # NoErr
         THEN DetailedStep(CompoundKeys(StringsSplit(Head(groups), ","), <<>>).err, reqs,
                           CompoundKeys(StringsSplit(Head(groups), ","), <<>>).frag)
    ELSE IF sent + 1 = failAt
         THEN Step(ErrCreateIndex,
                   Append(reqs, CreateOne(IndexModel(
                       CompoundKeys(StringsSplit(Head(groups), ","), <<>>).keys, FALSE, FALSE))))
    ELSE CompoundIndexes(Tail(groups),
             Append(reqs, CreateOne(IndexModel(
                 CompoundKeys(StringsSplit(Head(groups), ","), <<>>).keys, FALSE, FALSE))),
             sent + 1, failAt)

\* ensureCompoundIndex: the cindex tag of the identity field
ensureCompoundIndex(T, idFieldIndex, sent, failAt) ==
    IF T[idFieldIndex + 1].cindex = <<>> THEN Step(NoErr, <<>>)
    ELSE CompoundIndexes(
             StringsSplit(Without(Without(T[idFieldIndex + 1].cindex, "{"), "}"), ";"),
             <<>>, sent, failAt)

\* what NewMongoRepository returns, and the requests it sent
Construction(r, err, reqs) == [repo |-> r, err |-> err, reqs |-> reqs, frag |-> <<>>]

\* the third step and the return
CompoundEnsured(collection, T, id, simple, compound) ==
    IF compound.err # NoErr
    THEN [Construction(NoRepo, compound.err, simple.reqs \o compound.reqs)
              EXCEPT !.frag = DetailOf(compound)]
    ELSE Construction(Repository(collection, id.idFieldIndex, T), NoErr,
                      simple.reqs \o compound.reqs)

\* the second step
SimpleEnsured(collection, T, id, simple, failAt) ==
    IF simple.err # NoErr THEN Construction(NoRepo, simple.err, simple.reqs)
    ELSE CompoundEnsured(collection, T, id, simple,
             ensureCompoundIndex(T, id.idFieldIndex, Len(simple.reqs), failAt))

\* the first step
IdFieldSet(collection, T, id, simple, failAt) ==
    IF id.err # NoErr THEN Construction(NoRepo, id.err, <<>>)
    ELSE SimpleEnsured(collection, T, id, simple, failAt)

\* a construction that keeps the collection but not the index setIdField
\* resolved
NewMongoRepository_unresolved(collection, T, failAt) ==
    Construction(Repository(collection, 0, T), NoErr, <<>>)

NewMongoRepository(collection, T, failAt) ==
    IdFieldSet(collection, T, setIdField(T), ensureSimpleIndexes(T, failAt = 1), failAt)

\* src/main/repository_test.go: the tokens of an index tag are not trimmed,
\* and a token that is neither unique nor 1 nor -1 is the kind of the index
ApplyToken_main(ix, tok) ==
    CASE tok = <<"unique">>                        -> [ix EXCEPT !.unique = TRUE]
      [] tok \in {<<"1">>, <<"-", "1">>}           -> [ix EXCEPT !.kind = IntV(Atoi(tok).n)]
      [] OTHER                                     -> [ix EXCEPT !.kind = StrV(tok)]

RECURSIVE ApplyTokens_main(_, _)
ApplyTokens_main(ix, toks) ==
    IF toks = <<>> THEN ix
    ELSE ApplyTokens_main(ApplyToken_main(ix, Head(toks)), Tail(toks))

RECURSIVE SimpleIndexes_main(_, _, _)
SimpleIndexes_main(T, i, indexes) ==
    IF i > Len(T) THEN [err |-> NoErr, indexes |-> indexes]
    ELSE IF T[i].index = <<>> THEN SimpleIndexes_main(T, i + 1, indexes)
    ELSE SimpleIndexes_main(T, i + 1,
             Append(indexes,
                    IndexOf(T[i], ApplyTokens_main(NewIndex, StringsSplit(T[i].index, ",")))))

ensureSimpleIndexes_main(T, fails) ==
    SimpleIndexesSent(SimpleIndexes_main(T, 1, <<>>), fails)

NewMongoRepository_main(collection, T, failAt) ==
    IdFieldSet(collection, T, setIdField(T), ensureSimpleIndexes_main(T, failAt = 1), failAt)

\* src/repository.go: the identity field is the first field whose whole bson
\* tag is _id
setIdField_root(T) ==
    IF \E i \in 1..Len(T) : T[i].bson = <<"_id">>
    THEN [err |-> NoErr,
          idFieldIndex |-> (CHOOSE i \in 1..Len(T) :
                               T[i].bson = <<"_id">> /\ \A j \in 1..(i - 1) : T[j].bson # <<"_id">>) - 1]
    ELSE [err |-> ErrNoIdField, idFieldIndex |-> 0]

\* strings.ToLower on the words the index tags are written with
ToLower(text) ==
    [k \in 1..Len(text) |-> IF text[k] \in {"DESC", "Desc"} THEN "desc" ELSE text[k]]

\* ensureIndexes of src/repository.go: one ascending index per field with an
\* index tag, descending when the tag is desc, keyed by the Go name
RECURSIVE Indexes_root(_, _, _)
Indexes_root(T, i, indexes) ==
    IF i > Len(T) THEN [err |-> NoErr, indexes |-> indexes]
    ELSE IF T[i].index = <<>> THEN Indexes_root(T, i + 1, indexes)
    ELSE Indexes_root(T, i + 1,
             Append(indexes,
                    IndexModel(<<IndexKey(<<T[i].name>>,
                                          IntV(IF ToLower(T[i].index) = <<"desc">> THEN -1 ELSE 1))>>,
                               FALSE, FALSE)))

ensureIndexes_root(T, fails) == SimpleIndexesSent(Indexes_root(T, 1, <<>>), fails)

\* the return of NewMongoRepository of src/repository.go
IndexesEnsured_root(collection, T, id, simple) ==
    IF id.err # NoErr THEN Construction(NoRepo, id.err, <<>>)
    ELSE IF simple.err # NoErr THEN Construction(NoRepo, simple.err, simple.reqs)
    ELSE Construction(Repository(collection, id.idFieldIndex, T), NoErr, simple.reqs)

NewMongoRepository_root(collection, T, failAt) ==
    IndexesEnsured_root(collection, T, setIdField_root(T), ensureIndexes_root(T, failAt = 1))

ObjectID == "primitive.ObjectID"

\* the tags of the record types
IdTag == <<"_id", ",", "omitempty">>

TestCindex ==
    <<"{", "name", ":", "1", ",", "age", ":", "1", "}", ";",
      "{", "age", ":", "1", ",", "created_at", ":", "1", "}">>

\* TestModel of the tests
TestModelType ==
    <<StructField("ID", ObjectID, IdTag, <<>>, TestCindex),
      StructField("Name", "string", <<"name">>, <<"1">>, <<>>),
      StructField("Age", "int", <<"age">>, <<>>, <<>>),
      StructField("CreatedAt", "time.Time", <<"created_at">>, <<>>, <<>>)>>

TestCollection == "testcollection"

\* the repository of setupTestRepo
TestRepo == NewMongoRepository(TestCollection, TestModelType, 0).repo

\* the field Save and SaveAll reach through the cached index
IdField(r) == r.T[r.idFieldIndex + 1]

\* Save and SaveAll on the repository r: the type assertion on the field at
\* the cached index panics unless that field is the ObjectID
MongoRepository_Save(r, coll, ctr, item, fails) ==
    IF IdField(r).type # ObjectID
    THEN SaveOutcome(<<>>, ErrPanic, <<>>, coll, ctr)
    ELSE Save(coll, ctr, item, fails)

MongoRepository_SaveAll(r, coll, ctr, items, fails) ==
    IF items # <<>> /\ IdField(r).type # ObjectID
    THEN SaveOutcome(<<>>, ErrPanic, <<>>, coll, ctr)
    ELSE SaveAll(coll, ctr, items, fails)

---------------------------------------------------------------------------
(* The repository used by its callers: CRUD operations on one collection.  *)

\* the field values the callers save
People ==
    {[Name |-> <<"Jane">>, Age |-> 25], [Name |-> <<"Query Test">>, Age |-> 30]}

\* identifiers a caller can put into a record: none, or one an earlier Save
\* handed out (whether or not a document still carries it)
CallerIds == {ZeroID} \cup (1..oidCounter)

Items == {TestModel(id, p.Name, p.Age) : id \in CallerIds, p \in People}

\* the identifiers of the items of one SaveAll call: each item is new or
\* carries the identifier handed out most recently
RECURSIVE SeqsUpTo(_, _)
SeqsUpTo(S, n) ==
    IF n = 0 THEN {<<>>}
    ELSE LET shorter == SeqsUpTo(S, n - 1)
         IN shorter \cup {Append(q, x) : q \in {r \in shorter : Len(r) = n - 1}, x \in S}

BatchIds == SeqsUpTo({ZeroID, oidCounter}, MaxBatch) \ {<<>>}

\* the k-th item of a batch
BatchItem(k, id) ==
    IF k % 2 = 1 THEN TestModel(id, <<"Jane">>, 25) ELSE TestModel(id, <<"Query Test">>, 30)

Batch(ids) == [k \in 1..Len(ids) |-> BatchItem(k, ids[k])]

Summary(res) == [op |-> res.op, args |-> res.args, ids |-> res.ids,
                 out |-> res.out, err |-> res.err]

\* prev remembers the operation before the latest one when that was a Save
\* or a DeleteById of the current revision that succeeded
Remembered(res) ==
    IF res.op \in {"Save", "DeleteById"} /\ res.err = NoErr
    THEN Summary(res)
    ELSE Summary(NoResult)

Init ==
    /\ store = <<>>
    /\ oidCounter = 0
    /\ qb = NoBuilder
    /\ last = NoResult
    /\ prev = Summary(NoResult)
    /\ repo = TestRepo
    /\ calls = NoCalls

\* the state after a Save or SaveAll with outcome r
Saved(op, items, r) ==
    /\ Len(r.coll) <= MaxDocs
    /\ r.ctr <= MaxOid
    /\ store' = r.coll
    /\ oidCounter' = r.ctr
    /\ last' = Result(op, items, <<>>, r, store)
    /\ prev' = Remembered(last)
    /\ UNCHANGED <<qb, repo, calls>>

\* the state after any other operation with outcome r
Done(op, ids, r) ==
    /\ store' = r.coll
    /\ last' = Result(op, <<>>, ids, r, store)
    /\ prev' = Remembered(last)
    /\ UNCHANGED <<oidCounter, qb, repo, calls>>

Call_Save ==
    /\ repo.made
    /\ \E item \in Items :
          Saved("Save", <<item>>, MongoRepository_Save(repo, store, oidCounter, item, FALSE))

Call_Save_main ==
    \E item \in Items :
        Saved("Save_main", <<item>>, Save_main(store, oidCounter, item, FALSE))

Call_SaveAll ==
    /\ repo.made
    /\ \E ids \in BatchIds :
          Saved("SaveAll", Batch(ids),
                MongoRepository_SaveAll(repo, store, oidCounter, Batch(ids), FALSE))

Call_SaveAll_root ==
    \E ids \in BatchIds :
        Saved("SaveAll_root", Batch(ids), SaveAll_root(store, oidCounter, Batch(ids), FALSE))

Call_FindById ==
    /\ repo.made
    /\ \E id \in GeneratedIds :
          Done("FindById", <<id>>, FindById(store, id, FALSE))

Call_FindById_part000 ==
    \E id \in GeneratedIds :
        Done("FindById_part000", <<id>>, FindById_part000(store, id, FALSE))

Call_DeleteById ==
    /\ repo.made
    /\ \E id \in GeneratedIds :
          Done("DeleteById", <<id>>, DeleteById(store, id, FALSE))

Call_CountAll == Done("CountAll", <<>>, CountAll(store, FALSE))

Next ==
    \/ Call_Save
    \/ Call_Save_main
    \/ Call_SaveAll
    \/ Call_SaveAll_root
    \/ Call_FindById
    \/ Call_FindById_part000
    \/ Call_DeleteById
    \/ Call_CountAll

Spec == Init /\ [][Next]_vars

---------------------------------------------------------------------------
(* Construction: NewMongoRepository for a record type, then the repository *)
(* in use.                                                                 *)

MaxIndexRequests == 3

\* which index request of a construction the store fails; 0 is none
FailPoints == 0..MaxIndexRequests

\* a record type without a field tagged _id; one field carries an index tag
NoIdType ==
    <<StructField("Name", "string", <<"name">>, <<"1">>, <<>>),
      StructField("Age", "int", <<"age">>, <<>>, <<>>)>>

\* index tags with a token ensureSimpleIndexes does not list
BananaType ==
    <<StructField("ID", ObjectID, IdTag, <<>>, <<>>),
      StructField("Name", "string", <<"name">>, <<"1">>, <<>>),
      StructField("Age", "int", <<"age">>, <<"-", "1", ",", "banana">>, <<>>)>>

\* the record type of the README
ReadmeType ==
    <<StructField("ID", ObjectID, IdTag, <<>>,
                  <<"{", "age", ":", "1", ",", "name", ":", "-", "1", "}", ";",
                    "{", "age", ":", "1", ",", "email", ":", "1", "}">>),
      StructField("Name", "string", <<"name">>, <<"1", ",", Space, "unique">>, <<>>),
      StructField("Age", "int", <<"age">>, <<"-", "1">>, <<>>),
      StructField("Email", "string", <<"email">>, <<"text">>, <<>>)>>

\* the identity field is not the first field
LateIdType ==
    <<StructField("Name", "string", <<"name">>, <<>>, <<>>),
      StructField("ID", ObjectID, IdTag, <<>>, <<>>),
      StructField("Age", "int", <<"age">>, <<"1">>, <<>>)>>

\* a compound index whose second group has an order that is no number
BadCindexType ==
    <<StructField("ID", ObjectID, IdTag, <<>>,
                  <<"{", "name", ":", "1", "}", ";", "{", "age", ":", "up", "}">>),
      StructField("Name", "string", <<"name">>, <<>>, <<>>)>>

\* the first field carries _id as an option after its stored name, the
\* second as the first value of its tag
OptionIdType ==
    <<StructField("Ref", ObjectID, <<"ref", ",", "_id">>, <<>>, <<>>),
      StructField("ID", ObjectID, IdTag, <<>>, <<>>)>>

\* the whole bson tag of the identity field is _id
PlainIdType ==
    <<StructField("ID", ObjectID, <<"_id">>, <<>>, <<>>),
      StructField("Name", "string", <<"name">>, <<"DESC">>, <<>>)>>

\* index tags that list only modifiers, and one that lists two orderings
ModifiersType ==
    <<StructField("ID", ObjectID, IdTag, <<>>, <<>>),
      StructField("Email", "string", <<"email">>, <<"unique", ",", "sparse">>, <<>>),
      StructField("Age", "int", <<"age">>, <<"1", ",", "-", "1">>, <<>>)>>

\* a compound index with a part that is no field:order pair
ArityCindexType ==
    <<StructField("ID", ObjectID, IdTag, <<>>,
                  <<"{", "name", ":", "1", ",", "age", "}">>),
      StructField("Name", "string", <<"name">>, <<"1">>, <<>>)>>

\* the compound index is declared on a field that is not the identity field
OtherCindexType ==
    <<StructField("ID", ObjectID, IdTag, <<>>, <<>>),
      StructField("Name", "string", <<"name">>, <<>>,
                  <<"{", "name", ":", "1", ",", "age", ":", "-", "1", "}">>)>>

RecordTypes ==
    {TestModelType, NoIdType, BananaType, ReadmeType, LateIdType, BadCindexType,
     OptionIdType, PlainIdType, ModifiersType, ArityCindexType, OtherCindexType}

InitNew ==
    /\ store = <<>>
    /\ oidCounter = 0
    /\ qb = NoBuilder
    /\ last = NoResult
    /\ prev = Summary(NoResult)
    /\ repo = NoRepo
    /\ calls = NoCalls

\* the state after a construction for T that gave c
Returned(op, T, c) ==
    /\ repo' = c.repo
    /\ last' = Result(op, <<T>>, <<>>, Outcome(c.frag, 0, c.err, c.reqs, store), store)
    /\ prev' = Summary(NoResult)
    /\ UNCHANGED <<store, oidCounter, qb, calls>>

Call_NewMongoRepository ==
    /\ ~repo.made
    /\ \E T \in RecordTypes, failAt \in FailPoints :
          Returned("NewMongoRepository", T, NewMongoRepository(TestCollection, T, failAt))

Call_NewMongoRepository_main ==
    /\ ~repo.made
    /\ \E T \in RecordTypes, failAt \in FailPoints :
          Returned("NewMongoRepository_main", T,
                   NewMongoRepository_main(TestCollection, T, failAt))

Call_NewMongoRepository_root ==
    /\ ~repo.made
    /\ \E T \in RecordTypes, failAt \in FailPoints :
          Returned("NewMongoRepository_root", T,
                   NewMongoRepository_root(TestCollection, T, failAt))

NextNew ==
    \/ Call_NewMongoRepository
    \/ Call_NewMongoRepository_main
    \/ Call_NewMongoRepository_root
    \/ Call_Save
    \/ Call_SaveAll
    \/ Call_FindById
    \/ Call_DeleteById

SpecNew == InitNew /\ [][NextNew]_vars

---------------------------------------------------------------------------
(* Properties of Save, SaveAll, FindById.                                  *)

DocsWithId(coll, id) == {k \in 1..Len(coll) : coll[k].id = id}

UniqueIds(coll) == \A id \in {coll[k].id : k \in 1..Len(coll)} : Cardinality(DocsWithId(coll, id)) = 1

SavedNew(res) == res.op = "Save" /\ res.err = NoErr /\ IsZero(res.args[1].ID)

FoundSaved == SavedNew(prev) /\ last.op = "FindById" /\ last.ids[1] = prev.out[1].ID

SavedAgain ==
    /\ last.op \in {"Save", "Save_main"}
    /\ last.err = NoErr
    /\ ~IsZero(last.args[1].ID)
    /\ HasId(last.pre, last.args[1].ID)

\* C2: the collection never holds two documents with one identity; a
\* successful Save of a record whose non-empty identity a document already
\* carries adds no document (the count is unchanged) and leaves exactly one
\* document with that identity, holding the values just saved.
C2_IdempotentReplace ==
    /\ UniqueIds(store)
    /\ SavedAgain =>
          LET item == last.args[1] IN
          /\ Len(store) = Len(last.pre)
          /\ \A k \in DocsWithId(store, item.ID) : store[k] = Doc(item.ID, item.Name, item.Age)
          /\ Cardinality(DocsWithId(store, item.ID)) = 1

C2_Witness ==
    /\ SavedAgain
    /\ last.op = "Save"
    /\ \E k \in DocsWithId(last.pre, last.args[1].ID) :
           last.pre[k].name # last.args[1].Name

AllEmpty(items) == \A k \in 1..Len(items) : IsZero(items[k].ID)

Distinct(items) == \A j, k \in 1..Len(items) : j # k => items[j].ID # items[k].ID

\* C3: SaveAll of N >= 1 records with empty identities on an empty
\* collection returns N records with non-empty, pairwise distinct
\* identities, and the collection then holds N documents.  Stated of both
\* revisions of SaveAll.
C3_BulkIdentityPopulation ==
    (/\ last.op \in {"SaveAll", "SaveAll_root"}
     /\ last.err = NoErr
     /\ AllEmpty(last.args)
     /\ last.pre = <<>>)
    => /\ Len(last.out) = Len(last.args)
       /\ \A k \in 1..Len(last.out) : ~IsZero(last.out[k].ID)
       /\ Distinct(last.out)
       /\ StoreCountDocuments(store, M({})) = Len(last.args)

\* C4: FindById with an identity no document carries returns an error.
\* Stated of both revisions of FindById.
C4_NotFoundIsAnError ==
    (/\ last.op \in {"FindById", "FindById_part000"}
     /\ ~HasId(last.pre, last.ids[1]))
    => last.err # NoErr

---------------------------------------------------------------------------
(* bson.UnmarshalExtJSON of a text into a bson.M.                          *)

ParseFail == [ok |-> FALSE, val |-> IntV(0), pos |-> 0]
Parsed(val, pos) == [ok |-> TRUE, val |-> val, pos |-> pos]

Tok(text, i) == IF i <= Len(text) THEN text[i] ELSE "<eof>"

\* the position after the run of digits that starts at i
RECURSIVE DigitsEnd(_, _)
DigitsEnd(text, i) == IF IsDigit(Tok(text, i)) THEN DigitsEnd(text, i + 1) ELSE i

RECURSIVE NumberOf(_, _, _, _)
NumberOf(text, i, j, acc) ==
    IF i >= j THEN acc
    ELSE NumberOf(text, i + 1, j, acc * Len(DigitTokens) + DigitValue(text[i]))

\* a JSON number: digits, no leading zero
ParseNumber(text, i) ==
    LET j == DigitsEnd(text, i) IN
    IF j = i \/ (j > i + 1 /\ text[i] = "0") THEN ParseFail
    ELSE Parsed(IntV(NumberOf(text, i, j, 0)), j)

\* the body of a JSON string from position j up to the closing quote
RECURSIVE StringBody(_, _, _)
StringBody(text, j, acc) ==
    IF j > Len(text) THEN ParseFail
    ELSE IF text[j] = Quote THEN Parsed(StrV(acc), j + 1)
    ELSE IF text[j] = Backslash
         THEN IF Tok(text, j + 1) \in {Quote, Backslash}
              THEN StringBody(text, j + 2, Append(acc, text[j + 1]))
              ELSE ParseFail
    ELSE StringBody(text, j + 1, Append(acc, text[j]))

ParseString(text, i) ==
    IF Tok(text, i) = Quote THEN StringBody(text, i + 1, <<>>) ELSE ParseFail

ParseScalar(text, i) ==
    IF Tok(text, i) = Quote THEN ParseString(text, i)
    ELSE IF Tok(text, i) = "null" THEN Parsed(NullV, i + 1)
    ELSE ParseNumber(text, i)

\* the elements of an array after "[" or after a comma
RECURSIVE ArrayElems(_, _, _)
ArrayElems(text, i, acc) ==
    LET v == ParseScalar(text, i) IN
    IF ~v.ok THEN ParseFail
    ELSE IF Tok(text, v.pos) = "]" THEN Parsed(ArrV(Append(acc, v.val)), v.pos + 1)
    ELSE IF Tok(text, v.pos) = "," THEN ArrayElems(text, v.pos + 1, Append(acc, v.val))
    ELSE ParseFail

\* a scalar or an array of scalars
ParseAtom(text, i) ==
    IF Tok(text, i) = "["
    THEN IF Tok(text, i + 1) = "]" THEN Parsed(ArrV(<<>>), i + 2)
         ELSE ArrayElems(text, i + 1, <<>>)
    ELSE ParseScalar(text, i)

\* a value: a scalar, an array, or a document with one key
ParseValue(text, i) ==
    IF Tok(text, i) = "{"
    THEN LET k == ParseString(text, i + 1) IN
         IF ~k.ok \/ Tok(text, k.pos) # ":" THEN ParseFail
         ELSE LET v == ParseAtom(text, k.pos + 1) IN
              IF ~v.ok \/ Tok(text, v.pos) # "}" THEN ParseFail
              ELSE Parsed(ObjV(k.val.s, v.val), v.pos + 1)
    ELSE ParseAtom(text, i)

\* the name of a key or an operator: one word
WordOf(str) == IF Len(str) = 1 THEN str[1] ELSE "<other>"

OperatorOf(key) == IF WordOf(key) = "$gte" THEN "gte" ELSE WordOf(key)

\* the condition a key and its value make
CondOf(key, val) ==
    IF val.t = "obj" THEN Cond(WordOf(key), OperatorOf(val.s), val.e[1])
    ELSE Cond(WordOf(key), "eq", val)

\* a map holds one value per key: a later value for a key replaces it
Put(conds, c) == {x \in conds : x.field # c.field} \cup {c}

\* the pairs of a document after "{" or after a comma
RECURSIVE Pairs(_, _, _)
Pairs(text, i, conds) ==
    LET k == ParseString(text, i) IN
    IF ~k.ok \/ Tok(text, k.pos) # ":" THEN [ok |-> FALSE, m |-> NilM]
    ELSE LET v == ParseValue(text, k.pos + 1) IN
         IF ~v.ok THEN [ok |-> FALSE, m |-> NilM]
         ELSE LET conds2 == Put(conds, CondOf(k.val.s, v.val)) IN
              IF Tok(text, v.pos) = "}" /\ v.pos = Len(text)
              THEN [ok |-> TRUE, m |-> M(conds2)]
              ELSE IF Tok(text, v.pos) = ","
                   THEN Pairs(text, v.pos + 1, conds2)
                   ELSE [ok |-> FALSE, m |-> NilM]

UnmarshalExtJSON(text) ==
    IF Tok(text, 1) # "{" THEN [ok |-> FALSE, m |-> NilM]
    ELSE IF Len(text) = 2 /\ text[2] = "}" THEN [ok |-> TRUE, m |-> M({})]
    ELSE Pairs(text, 2, {})

---------------------------------------------------------------------------
(* The store collaborator: Find and DeleteMany.                            *)

\* the number a document is ordered by under a sort key
SortValue(doc, key) ==
    CASE key = "age" -> doc.age
      [] key = "_id" -> doc.id
      [] OTHER       -> 0

\* does a come before b under the sort clause (a bson.D: keys in order,
\* direction 1 ascending, -1 descending)
RECURSIVE Before(_, _, _)
Before(a, b, sort) ==
    IF sort = <<>> THEN FALSE
    ELSE LET e  == Head(sort)
             va == SortValue(a, e.key)
             vb == SortValue(b, e.key)
         IN IF va = vb THEN Before(a, b, Tail(sort))
            ELSE IF e.dir >= 0 THEN va < vb ELSE va > vb

\* d put into an ordered sequence, after the documents it does not precede
RECURSIVE InsertSorted(_, _, _)
InsertSorted(d, docs, sort) ==
    IF docs = <<>> THEN <<d>>
    ELSE IF Before(d, Head(docs), sort) THEN <<d>> \o docs
         ELSE <<Head(docs)>> \o InsertSorted(d, Tail(docs), sort)

RECURSIVE SortDocs(_, _)
SortDocs(docs, sort) ==
    IF docs = <<>> THEN <<>>
    ELSE InsertSorted(docs[Len(docs)], SortDocs(SubSeq(docs, 1, Len(docs) - 1), sort), sort)

Drop(docs, n) == SubSeq(docs, n + 1, Len(docs))

\* a limit of 0 is no limit
Take(docs, n) == IF n = 0 \/ n >= Len(docs) THEN docs ELSE SubSeq(docs, 1, n)

\* the keys a projection leaves in a document: _id and the keys it names
Projected(proj) == IF proj = None THEN AllKeys ELSE proj[1] \cup {"_id"}

\* collection.Find(ctx, filter, options) and cursor.All: filter, sort, skip,
\* limit, projection, in that order
StoreFind(coll, req) ==
    LET matching == Select(coll, req.filter)
        ordered  == IF req.sort = None THEN matching ELSE SortDocs(matching, req.sort[1])
        skipped  == IF req.skip = None THEN ordered ELSE Drop(ordered, req.skip[1])
        limited  == IF req.limit = None THEN skipped ELSE Take(skipped, req.limit[1])
    IN [k \in 1..Len(limited) |-> Raw(limited[k], Projected(req.proj))]

\* collection.DeleteMany(ctx, filter)
StoreDeleteMany(coll, filter) ==
    [coll |-> Reject(coll, filter), deleted |-> Len(Select(coll, filter))]

DecodeAll(raws) == [k \in 1..Len(raws) |-> Decode(raws[k])]

---------------------------------------------------------------------------
(* The query builder, src/unnamed/part_004.                                *)

\* repository.QueryRunner()
QueryRunner == [NoBuilder EXCEPT !.made = TRUE]

\* Filter(filter, params...): the filter is what the rendered text decodes
\* to; a text that does not decode panics
Unmarshalled(q, u) == [panic |-> ~u.ok, q |-> [q EXCEPT !.filter = u.m]]

Filter(q, filter, params) ==
    Unmarshalled(q, UnmarshalExtJSON(replaceParams(filter, params)))

FilterB(q, filter) == [q EXCEPT !.filter = filter]

ProjectionB(q, projection) == [q EXCEPT !.projection = Some(projection)]

SortB(q, sort) == [q EXCEPT !.sort = Some(sort)]

Pageable(q, pageable) == [q EXCEPT !.pageable = pageable]

Context(q, ctx) == [q EXCEPT !.context = ctx]

---------------------------------------------------------------------------
(* Query operations of the repository, src/src/repository.go.              *)

\* the filter QueryOne sends
QueryTestFilter == M({Cond("name", "eq", StrV(<<"Query Test">>))})

QueryOne(coll, q, fails) ==
    LET req == Request("FindOne", CtxTODO, QueryTestFilter)
        r   == StoreFindOne(coll, QueryTestFilter, AllKeys)
    IN IF fails
       THEN Outcome(<<ZeroT>>, 0, ErrStore, <<req>>, coll)
       ELSE Outcome(<<Decode(r.raw)>>, 0, r.err, <<req>>, coll)

\* the find request of QueryMany: skip and limit are always set
FindRequest(q) ==
    [Request("Find", q.context, q.filter) EXCEPT
        !.sort  = q.sort,
        !.proj  = q.projection,
        !.skip  = Some(q.pageable[2] * q.pageable[1]),
        !.limit = Some(q.pageable[2])]

\* the cursor of an operation that reads it with cursor.All and has
\* deferred cursor.Close
AllThenClose == CursorClose(CursorAll(Opened))

\* QueryMany that leaves the sort clause out of the request
QueryMany_unsorted(coll, q, fails) ==
    LET req == [FindRequest(q) EXCEPT !.sort = None]
    IN IF fails = CallFails
       THEN Outcome(<<>>, 0, ErrStore, <<req>>, coll)
       ELSE IF fails \in {CursorFails, DecodeFails}
            THEN WithCursor(Outcome(<<>>, 0, ErrStore, <<req>>, coll), AllThenClose)
            ELSE WithCursor(Outcome(DecodeAll(StoreFind(coll, req)), 0, NoErr, <<req>>, coll),
                            AllThenClose)

\* QueryMany that sets skip and limit only when both numbers of the pair
\* are non-zero
QueryMany_bothOrNone(coll, q, fails) ==
    LET req == IF q.pageable[1] # 0 /\ q.pageable[2] # 0
               THEN FindRequest(q)
               ELSE [FindRequest(q) EXCEPT !.skip = None, !.limit = None]
    IN IF fails = CallFails
       THEN Outcome(<<>>, 0, ErrStore, <<req>>, coll)
       ELSE IF fails \in {CursorFails, DecodeFails}
            THEN WithCursor(Outcome(<<>>, 0, ErrStore, <<req>>, coll), AllThenClose)
            ELSE WithCursor(Outcome(DecodeAll(StoreFind(coll, req)), 0, NoErr, <<req>>, coll),
                            AllThenClose)

QueryMany(coll, q, fails) ==
    LET req == FindRequest(q)
    IN IF fails = CallFails
       THEN Outcome(<<>>, 0, ErrStore, <<req>>, coll)
       ELSE IF fails \in {CursorFails, DecodeFails}
            THEN WithCursor(Outcome(<<>>, 0, ErrStore, <<req>>, coll), AllThenClose)
            ELSE WithCursor(Outcome(DecodeAll(StoreFind(coll, req)), 0, NoErr, <<req>>, coll),
                            AllThenClose)

\* Count that counts the documents of the builder's page only
Count_paged(coll, q, fails) ==
    LET req == [Request("CountDocuments", q.context, q.filter) EXCEPT
                   !.skip = Some(q.pageable[2] * q.pageable[1]),
                   !.limit = Some(q.pageable[2])]
        paged == Take(Drop(Select(coll, q.filter), q.pageable[2] * q.pageable[1]), q.pageable[2])
    IN IF fails
       THEN Outcome(<<>>, 0, ErrStore, <<req>>, coll)
       ELSE Outcome(<<>>, Len(paged), NoErr, <<req>>, coll)

Count(coll, q, fails) ==
    LET req == Request("CountDocuments", q.context, q.filter)
    IN IF fails
       THEN Outcome(<<>>, 0, ErrStore, <<req>>, coll)
       ELSE Outcome(<<>>, StoreCountDocuments(coll, q.filter), NoErr, <<req>>, coll)

\* Delete that removes the first matching document only
Delete_firstOnly(coll, q, fails) ==
    LET req == Request("DeleteOne", q.context, q.filter)
    IN IF fails
       THEN Outcome(<<>>, 0, ErrStore, <<req>>, coll)
       ELSE Outcome(<<>>, IF AnyMatch(coll, q.filter) THEN 1 ELSE 0, NoErr, <<req>>,
                    StoreDeleteOne(coll, q.filter))

Delete(coll, q, fails) ==
    LET req == Request("DeleteMany", q.context, q.filter)
        r   == StoreDeleteMany(coll, q.filter)
    IN IF fails
       THEN Outcome(<<>>, 0, ErrStore, <<req>>, coll)
       ELSE Outcome(<<>>, r.deleted, NoErr, <<req>>, r.coll)

\* FindAll and FindByIds: a find with a filter of their own, read with
\* cursor.All
FoundAll(coll, req, fails) ==
    IF fails = CallFails
    THEN Outcome(<<>>, 0, ErrStore, <<req>>, coll)
    ELSE IF fails \in {CursorFails, DecodeFails}
         THEN WithCursor(Outcome(<<>>, 0, ErrStore, <<req>>, coll), AllThenClose)
         ELSE WithCursor(Outcome(DecodeAll(StoreFind(coll, req)), 0, NoErr, <<req>>, coll),
                         AllThenClose)

FindAll(coll, fails) == FoundAll(coll, Request("Find", CtxTODO, M({})), fails)

IdsFilter(ids) == M({Cond("_id", "in", ArrV([k \in 1..Len(ids) |-> OidV(ids[k])]))})

FindByIds(coll, ids, fails) == FoundAll(coll, Request("Find", CtxTODO, IdsFilter(ids)), fails)

\* collection.Aggregate for a pipeline of $match stages: the documents
\* that pass every stage, in natural order
RECURSIVE Piped(_, _)
Piped(coll, pipeline) ==
    IF pipeline = <<>> THEN coll
    ELSE Piped(Select(coll, Head(pipeline)), Tail(pipeline))

StoreAggregate(coll, pipeline) ==
    [k \in 1..Len(Piped(coll, pipeline)) |-> Raw(Piped(coll, pipeline)[k], AllKeys)]

AggregateRequest(ctx, pipeline) == WriteRequest("Aggregate", ctx, NilM, pipeline)

\* AggregateOne without the deferred cursor.Close
AggregateOne_unclosed(coll, ctx, pipeline, fails) ==
    IF fails = CallFails
    THEN Outcome(<<>>, 0, ErrStore, <<AggregateRequest(ctx, pipeline)>>, coll)
    ELSE IF fails = CursorFails \/ StoreAggregate(coll, pipeline) = <<>>
         THEN WithCursor(Outcome(<<>>, 0, NoErr, <<AggregateRequest(ctx, pipeline)>>, coll),
                         Opened)
    ELSE IF fails = DecodeFails
         THEN WithCursor(Outcome(<<>>, 0, ErrStore, <<AggregateRequest(ctx, pipeline)>>, coll),
                         Opened)
    ELSE WithCursor(Outcome(<<StoreAggregate(coll, pipeline)[1]>>, 0, NoErr,
                            <<AggregateRequest(ctx, pipeline)>>, coll),
                    Opened)

\* AggregateOne: cursor.Next false, for lack of a document or for an error
\* of the cursor, gives a nil result and a nil error
AggregateOne(coll, ctx, pipeline, fails) ==
    IF fails = CallFails
    THEN Outcome(<<>>, 0, ErrStore, <<AggregateRequest(ctx, pipeline)>>, coll)
    ELSE IF fails = CursorFails \/ StoreAggregate(coll, pipeline) = <<>>
         THEN WithCursor(Outcome(<<>>, 0, NoErr, <<AggregateRequest(ctx, pipeline)>>, coll),
                         CursorClose(Opened))
    ELSE IF fails = DecodeFails
         THEN WithCursor(Outcome(<<>>, 0, ErrStore, <<AggregateRequest(ctx, pipeline)>>, coll),
                         CursorClose(Opened))
    ELSE WithCursor(Outcome(<<StoreAggregate(coll, pipeline)[1]>>, 0, NoErr,
                            <<AggregateRequest(ctx, pipeline)>>, coll),
                    CursorClose(Opened))

AggregateMultiple(coll, ctx, pipeline, fails) ==
    IF fails = CallFails
    THEN Outcome(<<>>, 0, ErrStore, <<AggregateRequest(ctx, pipeline)>>, coll)
    ELSE IF fails \in {CursorFails, DecodeFails}
         THEN WithCursor(Outcome(<<>>, 0, ErrStore, <<AggregateRequest(ctx, pipeline)>>, coll),
                         AllThenClose)
         ELSE WithCursor(Outcome(StoreAggregate(coll, pipeline), 0, NoErr,
                                 <<AggregateRequest(ctx, pipeline)>>, coll),
                         AllThenClose)

\* the terminal calls of the builder hand the builder to the repository
QueryBuilder_QueryOne(coll, q) == QueryOne(coll, q, FALSE)
QueryBuilder_QueryMany(coll, q) == QueryMany(coll, q, NoFailure)
QueryBuilder_Count(coll, q) == Count(coll, q, FALSE)
QueryBuilder_Delete(coll, q) == Delete(coll, q, FALSE)

---------------------------------------------------------------------------
(* Earlier revisions of the query operations.                              *)

\* src/repository.go: a QueryConfig with Query, Projection, Sort and a
\* Pageable slice
QueryConfig(query, pageable) ==
    [filter |-> query, projection |-> None, sort |-> None, pageable |-> pageable]

\* src/repository.go: skip is the first number of the pair, limit the
\* second, and both are set only when the slice holds two numbers
QueryMany_root(coll, ctx, queryConfig) ==
    LET base == [Request("Find", ctx, queryConfig.filter) EXCEPT
                    !.sort = queryConfig.sort, !.proj = queryConfig.projection]
        req  == IF Len(queryConfig.pageable) = 2
                THEN [base EXCEPT !.skip  = Some(queryConfig.pageable[1]),
                                  !.limit = Some(queryConfig.pageable[2])]
                ELSE base
    IN Outcome(DecodeAll(StoreFind(coll, req)), 0, NoErr, <<req>>, coll)

ErrParsingQuery == "error parsing query"

\* src/src/querybuilder.go, Filter(filter string): the template is kept
Filter_querybuilder(q, filter) == [q EXCEPT !.text = filter]

\* src/src/querybuilder.go, ConstructQuery(params...)
Constructed(q, u) == [ok |-> u.ok, query |-> [q EXCEPT !.filter = u.m]]

ConstructQuery(q, params) ==
    IF q.text # <<>>
    THEN Constructed(q, UnmarshalExtJSON(replaceParams(q.text, params)))
    ELSE [ok |-> TRUE, query |-> [q EXCEPT !.filter = NilM]]

\* a call f(params) of a variadic f(params ...interface{}) without the
\* dots: f gets one parameter, the slice
Undotted(params) == <<IF params = <<>> THEN NilSliceP ELSE SliceP(params)>>

\* src/src/querybuilder.go: Count, QueryMany and Delete pass their
\* parameters on as ConstructQuery(params)
\* the rest of a terminal call once the query is constructed: the error of
\* ConstructQuery is returned and nothing is sent
CountOf(coll, c) ==
    IF ~c.ok THEN Outcome(<<>>, 0, ErrParsingQuery, <<>>, coll)
    ELSE Count(coll, c.query, FALSE)

QueryManyOf(coll, c) ==
    IF ~c.ok THEN Outcome(<<>>, 0, ErrParsingQuery, <<>>, coll)
    ELSE QueryMany(coll, c.query, NoFailure)

DeleteOf(coll, c) ==
    IF ~c.ok THEN Outcome(<<>>, -1, ErrParsingQuery, <<>>, coll)
    ELSE Delete(coll, c.query, FALSE)

Count_querybuilder(coll, q, params) == CountOf(coll, ConstructQuery(q, Undotted(params)))

QueryMany_querybuilder(coll, q, params) ==
    QueryManyOf(coll, ConstructQuery(q, Undotted(params)))

Delete_querybuilder(coll, q, params) == DeleteOf(coll, ConstructQuery(q, Undotted(params)))

---------------------------------------------------------------------------
(* The builder used by its callers: one chain of builder calls at a time,  *)
(* over a collection that already holds documents.                         *)

\* the field values of the documents the collection starts with
QueryPeople == People \cup {[Name |-> <<"Jane">>, Age |-> 35]}

\* the collections a chain can start on: up to MaxColl documents, with the
\* identifiers 1, 2, .. in natural order
Collections ==
    UNION {{[k \in 1..n |-> Doc(k, f[k].Name, f[k].Age)] : f \in [1..n -> QueryPeople]} :
           n \in 0..MaxColl}

AgeGte(n) == Cond("age", "gte", IntV(n))
NameIs(name) == Cond("name", "eq", StrV(name))

\* the filters the callers build
BuiltFilters ==
    {M({}), M({AgeGte(30)}), M({NameIs(<<"Jane">>)}), M({NameIs(<<"Query Test">>)}),
     M({NameIs(<<"Jane">>), AgeGte(30)})}

SortKey(key, dir) == [key |-> key, dir |-> dir]

BuiltSorts == {<<SortKey("age", 1)>>, <<SortKey("age", -1)>>}

BuiltProjections == {{"name"}}

InitQuery ==
    /\ store \in Collections
    /\ oidCounter = Len(store)
    /\ qb = NoBuilder
    /\ last = NoResult
    /\ prev = Summary(NoResult)
    /\ repo = TestRepo
    /\ calls = NoCalls

\* a builder call is made on a builder whose chain has not run a terminal
\* call yet
Building == qb.made /\ last.op = "none"

Built(q) ==
    /\ Building
    /\ qb' = q
    /\ UNCHANGED <<store, oidCounter, last, prev, repo, calls>>

\* the state after a terminal call with outcome r
Queried(op, args, ids, r) ==
    /\ store' = r.coll
    /\ last' = Result(op, args, ids, r, store)
    /\ UNCHANGED <<oidCounter, qb, prev, repo, calls>>

Call_QueryRunner ==
    /\ qb' = QueryRunner
    /\ last' = NoResult
    /\ prev' = Summary(NoResult)
    /\ UNCHANGED <<store, oidCounter, repo, calls>>

Call_FilterB ==
    /\ qb.filter.isNil /\ qb.text = <<>>
    /\ \E filter \in BuiltFilters : Built(FilterB(qb, filter))

Call_SortB == \E sort \in BuiltSorts : Built(SortB(qb, sort))

Call_ProjectionB == \E projection \in BuiltProjections : Built(ProjectionB(qb, projection))

Call_Context == Built(Context(qb, CtxCaller))

Call_QueryOne ==
    qb.made /\ qb.text = <<>> /\ Queried("QueryOne", <<>>, <<>>, QueryBuilder_QueryOne(store, qb))

Call_QueryMany ==
    qb.made /\ qb.text = <<>> /\ Queried("QueryMany", <<>>, <<>>, QueryBuilder_QueryMany(store, qb))

Call_Count ==
    qb.made /\ qb.text = <<>> /\ Queried("Count", <<>>, <<>>, QueryBuilder_Count(store, qb))

Call_Delete ==
    qb.made /\ qb.text = <<>> /\ Queried("Delete", <<>>, <<>>, QueryBuilder_Delete(store, qb))

NextQuery ==
    \/ Call_QueryRunner
    \/ Call_FilterB
    \/ Call_SortB
    \/ Call_ProjectionB
    \/ Call_Context
    \/ Call_QueryOne
    \/ Call_QueryMany
    \/ Call_Count
    \/ Call_Delete

SpecQuery == InitQuery /\ [][NextQuery]_vars

---------------------------------------------------------------------------
(* Templated filters, by both revisions of the builder.                    *)

AgeTemplate == <<"{", Quote, "age", Quote, ":", "{", Quote, "$gte", Quote, ":", "?", "1", "}", "}">>
AgeLiteral == <<"{", Quote, "age", Quote, ":", "{", Quote, "$gte", Quote, ":", "3", "0", "}", "}">>
NameTemplate == <<"{", Quote, "name", Quote, ":", "?", "1", "}">>
NameAgeTemplate ==
    <<"{", Quote, "name", Quote, ":", "?", "1", ",",
      Quote, "age", Quote, ":", "{", Quote, "$gte", Quote, ":", "?", "2", "}", "}">>

Templates == {AgeTemplate, AgeLiteral, NameTemplate, NameAgeTemplate}

ParamLists ==
    {<<>>, <<IntP(30)>>, <<StrP(<<"Jane">>)>>, <<StrP(<<"Query Test">>)>>,
     <<StrP(<<"Jane">>), IntP(30)>>}

\* the state after Filter gave r: a panic ends the chain
Filtered(r) ==
    IF r.panic
    THEN /\ qb' = NoBuilder
         /\ last' = [NoResult EXCEPT !.op = "Filter", !.err = ErrPanic]
    ELSE /\ qb' = r.q
         /\ UNCHANGED last

\* Filter(filter, params...) of part_004
Call_Filter ==
    /\ Building
    /\ qb.filter.isNil /\ qb.text = <<>>
    /\ \E filter \in Templates, params \in ParamLists :
          /\ prev' = [Summary(NoResult) EXCEPT !.op = "Filter", !.args = <<filter, params>>]
          /\ Filtered(Filter(qb, filter, params))
    /\ UNCHANGED <<store, oidCounter, repo, calls>>

Call_Filter_querybuilder ==
    /\ qb.filter.isNil /\ qb.text = <<>>
    /\ \E filter \in Templates : Built(Filter_querybuilder(qb, filter))

Call_Count_querybuilder ==
    /\ qb.made /\ qb.filter.isNil
    /\ \E params \in ParamLists :
          Queried("Count_querybuilder", params, <<>>, Count_querybuilder(store, qb, params))

Call_QueryMany_querybuilder ==
    /\ qb.made /\ qb.filter.isNil
    /\ \E params \in ParamLists :
          Queried("QueryMany_querybuilder", params, <<>>,
                  QueryMany_querybuilder(store, qb, params))

Call_Delete_querybuilder ==
    /\ qb.made /\ qb.filter.isNil
    /\ \E params \in ParamLists :
          Queried("Delete_querybuilder", params, <<>>, Delete_querybuilder(store, qb, params))

NextTemplate ==
    \/ Call_QueryRunner
    \/ Call_Filter
    \/ Call_FilterB
    \/ Call_QueryMany
    \/ Call_Count
    \/ Call_Delete
    \/ Call_Filter_querybuilder
    \/ Call_QueryMany_querybuilder
    \/ Call_Count_querybuilder
    \/ Call_Delete_querybuilder

SpecTemplate == InitQuery /\ [][NextTemplate]_vars

---------------------------------------------------------------------------
(* Pagination, by both revisions of QueryMany.                             *)

PageIndexes == 0..MaxPage
PageSizes == 0..MaxSize

\* the Pageable slices a QueryConfig of src/repository.go can hold
PageableSlices ==
    {<<>>} \cup {<<p>> : p \in PageIndexes} \cup {<<p, s>> : p \in PageIndexes, s \in PageSizes}

Call_Pageable ==
    \E p \in PageIndexes, s \in PageSizes : Built(Pageable(qb, <<p, s>>))

\* the callers of src/repository.go hand QueryMany a QueryConfig; they have
\* no builder
Call_QueryMany_root ==
    /\ ~qb.made
    /\ \E query \in BuiltFilters, pageable \in PageableSlices :
          Queried("QueryMany_root", <<>>, pageable,
                  QueryMany_root(store, CtxCaller, QueryConfig(query, pageable)))

NextPage ==
    \/ Call_QueryRunner
    \/ Call_FilterB
    \/ Call_Pageable
    \/ Call_QueryMany
    \/ Call_QueryMany_root

SpecPage == InitQuery /\ [][NextPage]_vars

---------------------------------------------------------------------------
(* Sort texts.  A sort text is JSON: for the builders an array of objects, *)
(* for SimpleQuery one object.  It is held as the sequence of its objects, *)
(* each the sequence of its members in the order written.                  *)

\* json.Unmarshal of one object into a Go map: its keys, and per key the
\* value of the last member with that key
MapKeys(object) == {object[k].key : k \in 1..Len(object)}

MapValue(object, key) ==
    object[CHOOSE k \in 1..Len(object) :
               object[k].key = key /\ \A j \in (k + 1)..Len(object) : object[j].key # key].dir

\* `for k, v := range m` over a Go map: the order of the keys is not
\* specified, and each order gives one sequence of appended entries
RangeOrders(object) ==
    {[k \in 1..Cardinality(MapKeys(object)) |-> SortKey(order[k], MapValue(object, order[k]))] :
        order \in {f \in [1..Cardinality(MapKeys(object)) -> MapKeys(object)] :
                      \A i, j \in DOMAIN f : i # j => f[i] # f[j]}}

\* the loops of Sort over the array: the clauses the appends can build
RECURSIVE SortClauses(_)
SortClauses(text) ==
    IF text = <<>> THEN {<<>>}
    ELSE {a \o b : a \in RangeOrders(Head(text)), b \in SortClauses(Tail(text))}

\* src/unnamed/part_004, Sort(sort string), when the loops built clause
Sort(q, clause) == [q EXCEPT !.sort = Some(clause)]

\* src/src/querybuilder.go, Sort(sort string): the text is kept
Sort_querybuilder(q, sort) == [q EXCEPT !.sortText = sort]

\* src/src/querybuilder.go, ConstructQuery: the sort part, when the loops
\* built clause
ConstructSort(c, clause) == [c EXCEPT !.query.sort = Some(clause)]

\* src/simplequery.go, ToClassicQuery: the sort text is one object
SortClauses_simplequery(object) == RangeOrders(object)

\* the sort texts of the callers
SortTexts ==
    {<<>>,
     <<<<SortKey("age", 1)>>>>,
     <<<<SortKey("age", -1)>>>>,
     <<<<SortKey("age", -1)>>, <<SortKey("_id", 1)>>>>,
     <<<<SortKey("_id", -1)>>, <<SortKey("age", 1)>>>>,
     <<<<SortKey("age", -1), SortKey("_id", -1)>>>>}

SortObjects ==
    {<<SortKey("age", 1)>>, <<SortKey("age", -1), SortKey("_id", 1)>>,
     <<SortKey("_id", -1), SortKey("age", 1)>>}

\* the state after a builder call that took the sort text
SortCalled(op, text, q) ==
    /\ Building
    /\ qb' = q
    /\ prev' = Summary(Result(op, <<text>>, <<>>, Outcome(<<>>, 0, NoErr, <<>>, store), store))
    /\ UNCHANGED <<store, oidCounter, last, repo, calls>>

Call_Sort ==
    /\ qb.sort = None /\ qb.sortText = <<>>
    /\ \E text \in SortTexts : \E clause \in SortClauses(text) :
          SortCalled("Sort", text, Sort(qb, clause))

Call_Sort_querybuilder ==
    /\ qb.sort = None /\ qb.sortText = <<>>
    /\ \E text \in SortTexts \ {<<>>} :
          SortCalled("Sort_querybuilder", text, Sort_querybuilder(qb, text))

Call_QueryMany_sorted_querybuilder ==
    /\ qb.made /\ qb.sortText # <<>>
    /\ \E clause \in SortClauses(qb.sortText) :
          Queried("QueryMany_querybuilder", <<>>, <<>>,
                  QueryManyOf(store, ConstructSort(ConstructQuery(qb, <<>>), clause)))

Call_ToClassicQuery_simplequery ==
    /\ \E object \in SortObjects : \E clause \in SortClauses_simplequery(object) :
          last' = Result("ToClassicQuery", <<<<object>>>>, <<>>,
                         Outcome(clause, 0, NoErr, <<>>, store), store)
    /\ qb' = NoBuilder
    /\ prev' = Summary(NoResult)
    /\ UNCHANGED <<store, oidCounter, repo, calls>>

NextSort ==
    \/ Call_QueryRunner
    \/ Call_Sort
    \/ Call_QueryMany
    \/ Call_Sort_querybuilder
    \/ Call_QueryMany_sorted_querybuilder
    \/ Call_ToClassicQuery_simplequery

SpecSort == InitQuery /\ [][NextSort]_vars

---------------------------------------------------------------------------
(* The name template with textual parameters of any content.               *)

\* the text `","age":{"$gte":30},"name":"Query Test`
ClosingValue ==
    <<Quote, ",", Quote, "age", Quote, ":", "{", Quote, "$gte", Quote, ":", "3", "0", "}", ",",
      Quote, "name", Quote, ":", Quote, "Query Test">>

\* the textual parameters of the callers: names, a name with a double
\* quote in it, a name that ends in a backslash, the text of a placeholder,
\* and a text that closes the string and goes on as JSON
NameValues ==
    {<<"Jane">>, <<"Query Test">>, <<"Ja", Quote, "ne">>, <<"Jane", Backslash>>,
     <<"?", "1">>, <<"?", "2">>, ClosingValue}

\* Filter(`{"name":?1}`, value) of part_004
Call_Filter_name ==
    /\ Building
    /\ qb.filter.isNil /\ qb.text = <<>>
    /\ \E value \in NameValues :
          /\ prev' = [Summary(NoResult) EXCEPT
                         !.op = "Filter", !.args = <<NameTemplate, <<StrP(value)>>>>]
          /\ Filtered(Filter(qb, NameTemplate, <<StrP(value)>>))
    /\ UNCHANGED <<store, oidCounter, repo, calls>>

\* Filter(`{"name":?1}`) of src/src/querybuilder.go
Call_Filter_name_querybuilder ==
    /\ qb.filter.isNil /\ qb.text = <<>>
    /\ Built(Filter_querybuilder(qb, NameTemplate))

\* QueryMany(value) of src/src/querybuilder.go
Call_QueryMany_name_querybuilder ==
    /\ qb.made /\ qb.filter.isNil /\ qb.text # <<>>
    /\ \E value \in NameValues :
          Queried("QueryMany_querybuilder", <<StrP(value)>>, <<>>,
                  QueryMany_querybuilder(store, qb, <<StrP(value)>>))

NextInject ==
    \/ Call_QueryRunner
    \/ Call_Filter_name
    \/ Call_QueryMany
    \/ Call_Count
    \/ Call_Filter_name_querybuilder
    \/ Call_QueryMany_name_querybuilder

SpecInject == InitQuery /\ [][NextInject]_vars

---------------------------------------------------------------------------
(* Count and Delete on a builder that carries every option.                *)

NextOptions ==
    \/ Call_QueryRunner
    \/ Call_FilterB
    \/ Call_SortB
    \/ Call_ProjectionB
    \/ Call_Pageable
    \/ Call_Count
    \/ Call_Delete

SpecOptions == InitQuery /\ [][NextOptions]_vars

---------------------------------------------------------------------------
(* Properties of the query operations.                                     *)

MatchingIn(coll, filter) == {k \in 1..Len(coll) : Matches(coll[k], filter)}

\* the request of the latest operation, when it sent exactly one
TheRequest == last.reqs[1]

\* C5: the terminal call QueryOne sends the store one find-one request that
\* carries exactly the filter, the projection and the context accumulated
\* on the builder, and the record it returns without error is a document
\* that matches the builder's filter.
C5_QueryOneCarriesBuilder ==
    last.op = "QueryOne" =>
        /\ Len(last.reqs) = 1
        /\ TheRequest.kind = "FindOne"
        /\ TheRequest.filter = qb.filter
        /\ TheRequest.proj = qb.projection
        /\ TheRequest.ctx = qb.context
        /\ last.err = NoErr =>
               \E k \in MatchingIn(last.pre, qb.filter) : last.out[1].ID = last.pre[k].id

\* the document of the collection before the latest operation that a
\* returned record was decoded from
SourceOf(rec) == last.pre[CHOOSE k \in 1..Len(last.pre) : last.pre[k].id = rec.ID]

\* do the documents behind two returned records stand in the order of the
\* clause: by its first key, ascending for 1 and descending for -1
InOrder(a, b, sort) ==
    LET e == sort[1] IN
    IF e.key = "age"
    THEN IF e.dir = 1 THEN SourceOf(a).age <= SourceOf(b).age
         ELSE SourceOf(a).age >= SourceOf(b).age
    ELSE TRUE

SortedQuery ==
    /\ last.op = "QueryMany"
    /\ last.err = NoErr
    /\ qb.sort # None
    /\ qb.pageable = <<0, 0>>

\* C6: QueryMany with a filter and a sort clause and no pagination returns
\* exactly the documents that match the filter, each once, in the order
\* the sort clause defines.
C6_FilteredAndSorted ==
    SortedQuery =>
        LET matching == MatchingIn(last.pre, qb.filter) IN
        /\ Len(last.out) = Cardinality(matching)
        /\ \A k \in matching :
               Cardinality({j \in 1..Len(last.out) : last.out[j].ID = last.pre[k].id}) = 1
        /\ \A j \in 1..Len(last.out) :
               \E k \in matching :
                   last.out[j] = Decode(Raw(last.pre[k], Projected(qb.projection)))
        /\ \A i, j \in 1..Len(last.out) :
               i < j => InOrder(last.out[i], last.out[j], qb.sort[1])

C6_Witness ==
    /\ SortedQuery
    /\ qb.filter = M({AgeGte(30)})
    /\ qb.sort = Some(<<SortKey("age", 1)>>)
    /\ [k \in 1..Len(last.pre) |-> last.pre[k].age] = <<35, 25, 30>>
    /\ [k \in 1..Len(last.out) |-> last.out[k].Age] = <<30, 35>>

\* C7: the builder's Count returns the number of documents matching the
\* filter and changes nothing; the builder's Delete removes exactly the
\* matching documents, returns their number and leaves every other
\* document unchanged and in place, so CountAll afterwards is CountAll
\* before minus the returned number.
C7_CountAndDeleteByFilter ==
    LET matching == MatchingIn(last.pre, qb.filter) IN
    /\ (last.op = "Count" /\ last.err = NoErr) =>
           /\ last.n = Cardinality(matching)
           /\ store = last.pre
    /\ (last.op = "Delete" /\ last.err = NoErr) =>
           /\ last.n = Cardinality(matching)
           /\ Len(store) = Len(last.pre) - Cardinality(matching)
           /\ \A k \in 1..Len(last.pre) :
                  k \notin matching <=> \E j \in 1..Len(store) : store[j] = last.pre[k]
           /\ CountAll(store, FALSE).n = CountAll(last.pre, FALSE).n - last.n

C7_Witness ==
    /\ last.op = "Delete"
    /\ qb.filter = M({AgeGte(30)})
    /\ [k \in 1..Len(last.pre) |-> last.pre[k].age] = <<25, 30, 35>>
    /\ last.n = 2
    /\ [k \in 1..Len(store) |-> store[k].age] = <<25>>

\* a template, the parameters given with it, and the pre-built filter that
\* is structurally equal to the text the substitution gives
TemplateCase(template, params, built) ==
    [template |-> template, params |-> params, built |-> built]

TemplateCases ==
    {TemplateCase(AgeTemplate, <<IntP(30)>>, M({AgeGte(30)})),
     TemplateCase(AgeLiteral, <<>>, M({AgeGte(30)})),
     TemplateCase(NameTemplate, <<StrP(<<"Jane">>)>>, M({NameIs(<<"Jane">>)})),
     TemplateCase(NameTemplate, <<StrP(<<"Query Test">>)>>, M({NameIs(<<"Query Test">>)})),
     TemplateCase(NameAgeTemplate, <<StrP(<<"Jane">>), IntP(30)>>,
                  M({NameIs(<<"Jane">>), AgeGte(30)}))}

\* what the structured surface does with the pre-built filter, on the
\* collection before the latest operation
Structured(op, built) ==
    LET q == FilterB(QueryRunner, built) IN
    CASE op \in {"QueryMany", "QueryMany_querybuilder"} -> QueryBuilder_QueryMany(last.pre, q)
      [] op \in {"Count", "Count_querybuilder"}         -> QueryBuilder_Count(last.pre, q)
      [] OTHER                                           -> QueryBuilder_Delete(last.pre, q)

SameAsStructured(c) ==
    LET r == Structured(last.op, c.built) IN
    /\ last.err = NoErr
    /\ Len(last.reqs) = 1
    /\ TheRequest.filter = c.built
    /\ last.out = r.out
    /\ last.n = r.n
    /\ store = r.coll

\* C8: for every filter template and parameter list whose substitution
\* gives valid text, QueryMany, Count and Delete started from the templated
\* filter send the store the same filter, and return the same result over
\* the same collection, as when started from the structurally equal
\* pre-built filter.  Stated of both revisions of the builder.
C8_TemplatedEqualsStructured ==
    \A c \in TemplateCases :
        /\ (/\ last.op \in {"QueryMany", "Count", "Delete"}
            /\ prev.op = "Filter"
            /\ prev.args = <<c.template, c.params>>)
           => SameAsStructured(c)
        /\ (/\ last.op \in {"QueryMany_querybuilder", "Count_querybuilder", "Delete_querybuilder"}
            /\ qb.text = c.template
            /\ last.args = c.params)
           => SameAsStructured(c)

\* the page index and the page size of the latest QueryMany
PageOf == IF last.op = "QueryMany" THEN qb.pageable ELSE last.ids

Paged ==
    \/ last.op = "QueryMany"
    \/ last.op = "QueryMany_root" /\ Len(last.ids) = 2

\* C9: for every page index p >= 0 and page size s > 0 set on a query, the
\* find request QueryMany sends has skip = p * s and limit = s.  Stated of
\* both revisions of QueryMany.
C9_SkipIsIndexTimesSize ==
    (Paged /\ PageOf[1] >= 0 /\ PageOf[2] > 0) =>
        /\ TheRequest.skip = Some(PageOf[1] * PageOf[2])
        /\ TheRequest.limit = Some(PageOf[2])

OnlyOneOfPair == (qb.pageable[1] = 0) # (qb.pageable[2] = 0)

ReturnsEveryMatch == Len(last.out) = Cardinality(MatchingIn(last.pre, qb.filter))

\* C10, as stated: when only one of page index and page size is supplied and
\* the other is left at its default, the find request carries neither a
\* skip nor a limit and every matching document is returned.
C10_OneOfPairIsNoPagination ==
    (last.op = "QueryMany" /\ OnlyOneOfPair) =>
        /\ TheRequest.skip = None
        /\ TheRequest.limit = None
        /\ ReturnsEveryMatch

Min(a, b) == IF a <= b THEN a ELSE b

\* C10, amended: the find request always carries a skip and a limit.  With
\* the page size left at its default 0 they are skip 0 and limit 0, which
\* the store takes as no limit, and every matching document is returned;
\* with a page size s > 0 and the page index left at its default 0 they
\* are skip 0 and limit s, and the first s matching documents are returned.
C10_DefaultOfPair ==
    (last.op = "QueryMany" /\ last.err = NoErr) =>
        /\ qb.pageable[2] = 0 =>
               /\ TheRequest.skip = Some(0)
               /\ TheRequest.limit = Some(0)
               /\ ReturnsEveryMatch
        /\ (qb.pageable[1] = 0 /\ qb.pageable[2] > 0) =>
               /\ TheRequest.skip = Some(0)
               /\ TheRequest.limit = Some(qb.pageable[2])
               /\ Len(last.out) =
                      Min(qb.pageable[2], Cardinality(MatchingIn(last.pre, qb.filter)))

C10_Witness ==
    /\ last.op = "QueryMany"
    /\ qb.pageable = <<0, 1>>
    /\ Cardinality(MatchingIn(last.pre, qb.filter)) = 2
    /\ Len(last.out) = 1


---------------------------------------------------------------------------
(* The operations against a store that can fail: every call may fail in    *)
(* the request, and an operation that reads a cursor may fail while the    *)
(* cursor advances or while a document is decoded.                         *)

Failures == {NoFailure, CallFails, CursorFails, DecodeFails}

FailureOf(fails) == IF fails THEN CallFails ELSE NoFailure

\* pipelines of $match stages
Pipelines ==
    {<<>>, <<M({AgeGte(30)})>>, <<M({NameIs(<<"Jane">>)}), M({AgeGte(30)})>>}

\* the identifiers a caller asks FindByIds for: one, or the first few
IdLists == {[k \in 1..n |-> k] : n \in 0..MaxBatch} \cup {<<id>> : id \in GeneratedIds}

\* the state after an operation with outcome r during which the store
\* failed at fails
Faulted(op, args, ids, r, fails) ==
    /\ store' = r.coll
    /\ last' = [Result(op, args, ids, r, store) EXCEPT !.failed = fails]
    /\ UNCHANGED <<qb, prev, repo, calls>>

\* the same after Save and SaveAll, which hand out identifiers
FaultedSave(op, items, r, fails) ==
    /\ Len(r.coll) <= MaxDocs
    /\ r.ctr <= MaxOid
    /\ oidCounter' = r.ctr
    /\ Faulted(op, items, <<>>, r, FailureOf(fails))

Faulty_Save ==
    /\ repo.made
    /\ \E item \in Items, fails \in BOOLEAN :
          FaultedSave("Save", <<item>>,
                      MongoRepository_Save(repo, store, oidCounter, item, fails), fails)

Faulty_SaveAll ==
    /\ repo.made
    /\ \E ids \in BatchIds, fails \in BOOLEAN :
          FaultedSave("SaveAll", Batch(ids),
                      MongoRepository_SaveAll(repo, store, oidCounter, Batch(ids), fails), fails)

Faulty_FindById ==
    /\ repo.made
    /\ \E id \in GeneratedIds, fails \in BOOLEAN :
          Faulted("FindById", <<>>, <<id>>, FindById(store, id, fails), FailureOf(fails))
    /\ UNCHANGED oidCounter

Faulty_FindById_part000 ==
    /\ repo.made
    /\ \E id \in GeneratedIds, fails \in BOOLEAN :
          Faulted("FindById_part000", <<>>, <<id>>, FindById_part000(store, id, fails),
                  FailureOf(fails))
    /\ UNCHANGED oidCounter

Faulty_QueryOne ==
    /\ qb.made /\ qb.text = <<>>
    /\ \E fails \in BOOLEAN :
          Faulted("QueryOne", <<>>, <<>>, QueryOne(store, qb, fails), FailureOf(fails))
    /\ UNCHANGED oidCounter

Faulty_QueryMany ==
    /\ qb.made /\ qb.text = <<>>
    /\ \E fails \in Failures :
          /\ fails = DecodeFails => QueryMany(store, qb, NoFailure).out # <<>>
          /\ Faulted("QueryMany", <<>>, <<>>, QueryMany(store, qb, fails), fails)
    /\ UNCHANGED oidCounter

Faulty_Count ==
    /\ qb.made /\ qb.text = <<>>
    /\ \E fails \in BOOLEAN :
          Faulted("Count", <<>>, <<>>, Count(store, qb, fails), FailureOf(fails))
    /\ UNCHANGED oidCounter

Faulty_Delete ==
    /\ qb.made /\ qb.text = <<>>
    /\ \E fails \in BOOLEAN :
          Faulted("Delete", <<>>, <<>>, Delete(store, qb, fails), FailureOf(fails))
    /\ UNCHANGED oidCounter

Call_FindAll ==
    /\ repo.made
    /\ \E fails \in Failures :
          /\ fails = DecodeFails => store # <<>>
          /\ Faulted("FindAll", <<>>, <<>>, FindAll(store, fails), fails)
    /\ UNCHANGED oidCounter

Call_FindByIds ==
    /\ repo.made
    /\ \E ids \in IdLists, fails \in Failures :
          /\ fails = DecodeFails => FindByIds(store, ids, NoFailure).out # <<>>
          /\ Faulted("FindByIds", <<>>, ids, FindByIds(store, ids, fails), fails)
    /\ UNCHANGED oidCounter

Call_AggregateOne ==
    /\ repo.made
    /\ \E pipeline \in Pipelines, fails \in Failures :
          /\ fails = DecodeFails => StoreAggregate(store, pipeline) # <<>>
          /\ Faulted("AggregateOne", pipeline, <<>>,
                     AggregateOne(store, CtxCaller, pipeline, fails), fails)
    /\ UNCHANGED oidCounter

Call_AggregateMultiple ==
    /\ repo.made
    /\ \E pipeline \in Pipelines, fails \in Failures :
          /\ fails = DecodeFails => StoreAggregate(store, pipeline) # <<>>
          /\ Faulted("AggregateMultiple", pipeline, <<>>,
                     AggregateMultiple(store, CtxCaller, pipeline, fails), fails)
    /\ UNCHANGED oidCounter

NextFaulty ==
    \/ Call_QueryRunner
    \/ Call_FilterB
    \/ Faulty_Save
    \/ Faulty_SaveAll
    \/ Faulty_FindById
    \/ Faulty_FindById_part000
    \/ Faulty_QueryOne
    \/ Faulty_QueryMany
    \/ Faulty_Count
    \/ Faulty_Delete
    \/ Call_FindAll
    \/ Call_FindByIds
    \/ Call_AggregateOne
    \/ Call_AggregateMultiple

SpecFaulty == Init /\ [][NextFaulty]_vars

\* the operations that read a cursor, on the collections a chain can start
\* on
NextCursor ==
    \/ Call_QueryRunner
    \/ Call_FilterB
    \/ Faulty_QueryMany
    \/ Call_FindAll
    \/ Call_FindByIds
    \/ Call_AggregateOne
    \/ Call_AggregateMultiple

SpecCursor == InitQuery /\ [][NextCursor]_vars

---------------------------------------------------------------------------
(* Save and SaveAll called by several callers at once on one repository.   *)
(* A call runs in two steps: the local part up to the request, in which    *)
(* NewObjectID hands out identities from its atomic counter, and the one   *)
(* request to the store, which the store serves atomically.                *)

InitConcurrent ==
    /\ store \in {<<>>, <<Doc(1, <<"Jane">>, 25)>>}
    /\ oidCounter = Len(store)
    /\ qb = NoBuilder
    /\ last = NoResult
    /\ prev = Summary(NoResult)
    /\ repo = TestRepo
    /\ calls = NoCalls

\* is a call of a caller other than c between its two steps
OthersInFlight(c) == \E d \in Callers \ {c} : calls[d].pc = "request"

\* the state after caller c ran the local part of op: a holds the items
\* with their identities and the counter
Begun(c, op, a) ==
    /\ a.ctr <= MaxOid
    /\ oidCounter' = a.ctr
    /\ calls' = [calls EXCEPT ![c] = Call("request", op, a.items, NoErr, FALSE)]
    /\ UNCHANGED <<store, qb, last, prev, repo>>

\* the state after the store served the request of caller c with outcome r
Served(c, r) ==
    /\ Len(r.coll) <= MaxDocs
    /\ r.ctr <= MaxOid
    /\ store' = r.coll
    /\ oidCounter' = r.ctr
    /\ calls' = [calls EXCEPT ![c] = Call("returned", calls[c].op, r.out, r.err,
                                           OthersInFlight(c))]
    /\ UNCHANGED <<qb, last, prev, repo>>

\* Save, lines 218-224
Begin_Save ==
    \E c \in Callers :
        /\ calls[c].pc = "idle"
        /\ \E item \in Items : Begun(c, "Save", AssignIds(<<item>>, oidCounter))

\* Save, lines 226-230
Request_Save ==
    \E c \in Callers :
        /\ calls[c].pc = "request" /\ calls[c].op = "Save"
        /\ Served(c, MongoRepository_Save(repo, store, oidCounter, calls[c].items[1], FALSE))

\* SaveAll, lines 234-249
Begin_SaveAll ==
    \E c \in Callers :
        /\ calls[c].pc = "idle"
        /\ \E ids \in BatchIds : Begun(c, "SaveAll", AssignIds(Batch(ids), oidCounter))

\* SaveAll, lines 251-255
Request_SaveAll ==
    \E c \in Callers :
        /\ calls[c].pc = "request" /\ calls[c].op = "SaveAll"
        /\ Served(c, MongoRepository_SaveAll(repo, store, oidCounter, calls[c].items, FALSE))

\* Save of src/main/repository_test.go reads the identity and sets none
\* before its request
Begin_Save_main ==
    \E c \in Callers :
        /\ calls[c].pc = "idle"
        /\ \E item \in Items :
              Begun(c, "Save_main", [items |-> <<item>>, ctr |-> oidCounter])

Request_Save_main ==
    \E c \in Callers :
        /\ calls[c].pc = "request" /\ calls[c].op = "Save_main"
        /\ Served(c, Save_main(store, oidCounter, calls[c].items[1], FALSE))

NextConcurrent ==
    \/ Begin_Save
    \/ Request_Save
    \/ Begin_SaveAll
    \/ Request_SaveAll
    \/ Begin_Save_main
    \/ Request_Save_main

SpecConcurrent == InitConcurrent /\ [][NextConcurrent]_vars

---------------------------------------------------------------------------
(* Rendering of templates: replaceParams applied to a template and its     *)
(* parameters.                                                             *)

MaxParams == 10

\* a template whose placeholder has two digits
TenthTemplate ==
    <<"{", Quote, "age", Quote, ":", "{", Quote, "$gte", Quote, ":", "?", "1", "0", "}", "}">>

\* a template that uses a placeholder twice
TwiceTemplate ==
    <<"{", Quote, "age", Quote, ":", "?", "1", ",", Quote, "min", Quote, ":", "?", "1", "}">>

RenderTemplates == Templates \cup {TenthTemplate, TwiceTemplate}

\* parameter lists: numbers, names, and a name followed by numbers
Numbers == [k \in 1..MaxParams |-> IntP(20 + k)]

NamesP == [k \in 1..MaxParams |-> StrP(<<IF k % 2 = 1 THEN "Jane" ELSE "John">>)]

NameThenNumbers == [k \in 1..MaxParams |-> IF k = 1 THEN StrP(<<"Jane">>) ELSE IntP(20 + k)]

RenderParams ==
    {SubSeq(base, 1, n) : base \in {Numbers, NamesP, NameThenNumbers}, n \in 0..MaxParams}

\* what replaceParams did: the template and parameters it got and the text
\* it gave
Replaced(op, query, params, text) ==
    Result(op, <<query, params>>, <<>>, Outcome(<<text>>, 0, NoErr, <<>>, store), store)

Call_replaceParams ==
    /\ \E query \in RenderTemplates, params \in RenderParams :
          last' = Replaced("replaceParams", query, params, replaceParams(query, params))
    /\ UNCHANGED <<store, oidCounter, qb, prev, repo, calls>>

Call_replaceParams_simplequery ==
    /\ \E query \in RenderTemplates, params \in RenderParams :
          last' = Replaced("replaceParams_simplequery", query, params,
                           replaceParams_simplequery(query, params))
    /\ UNCHANGED <<store, oidCounter, qb, prev, repo, calls>>

NextRender ==
    \/ Call_replaceParams
    \/ Call_replaceParams_simplequery

SpecRender == Init /\ [][NextRender]_vars

---------------------------------------------------------------------------
(* Properties of construction.                                             *)

Range(seq) == {seq[k] : k \in 1..Len(seq)}

Constructing == last.op \in {"NewMongoRepository", "NewMongoRepository_main"}

\* a record type with a field annotated as the identity
Annotated(T) == \E i \in 1..Len(T) : "_id" \in Range(T[i].bson)

\* C11: constructing a repository for a record type without a field
\* annotated as the identity returns an error and no repository, and no
\* index-creation request was sent before it failed.
C11_NoIdentityFieldFails ==
    Constructing /\ ~Annotated(last.args[1])
        => /\ last.err # NoErr
           /\ ~repo.made
           /\ last.reqs = <<>>

\* a construction for the type without identity field, whose Name field
\* asks for an index
C11_Witness ==
    /\ last.op = "NewMongoRepository"
    /\ last.args[1] = NoIdType
    /\ last.err = ErrNoIdField

IndexTokens ==
    {<<"1">>, <<"-", "1">>, <<"text">>, <<"2dsphere">>, <<"unique">>, <<"sparse">>}

IndexKinds == {NullV, IntV(1), IntV(-1), StrV(<<"text">>), StrV(<<"2dsphere">>)}

\* an index annotation of T has a token outside the listed ones
UnknownToken(T) ==
    \E i \in 1..Len(T) :
        /\ T[i].index # <<>>
        /\ \E tok \in Range(StringsSplit(T[i].index, ",")) : TrimSpace(tok) \notin IndexTokens

\* C12: an index annotation with a token outside 1, -1, text, 2dsphere,
\* unique and sparse makes construction fail with an error and no
\* repository, and the unknown token is never sent to the store as the kind
\* of an index.
C12_UnknownIndexTokenFails ==
    Constructing /\ UnknownToken(last.args[1])
        => /\ last.err # NoErr
           /\ ~repo.made
           /\ \A k \in 1..Len(last.reqs) :
                  \A m \in 1..Len(last.reqs[k].docs) :
                      \A j \in 1..Len(last.reqs[k].docs[m].keys) :
                          last.reqs[k].docs[m].keys[j].kind \in IndexKinds

\* the same for the construction of src/src/repository.go alone
C12a_UnknownIndexTokenFails_src ==
    last.op = "NewMongoRepository" => C12_UnknownIndexTokenFails


---------------------------------------------------------------------------
(* Properties of Save and SaveAll.                                         *)

\* C13: Save of a record with an empty identity sends an insert and then
\* writes the identity the store assigned into the record; Save of a record
\* with an identity sends a replace-with-upsert keyed by that identity; no
\* replace-with-upsert is sent for a record passed with an empty identity.
C13_InsertWhenEmptyReplaceWhenNot ==
    last.op \in {"Save", "Save_main"}
        => /\ Len(last.reqs) = 1
           /\ IsZero(last.args[1].ID)
                  => /\ last.reqs[1].kind = "InsertOne"
                     /\ last.err = NoErr
                            => /\ ~IsZero(last.out[1].ID)
                               /\ HasId(store, last.out[1].ID)
           /\ ~IsZero(last.args[1].ID)
                  => /\ last.reqs[1].kind = "ReplaceOneUpsert"
                     /\ last.reqs[1].filter = IdFilter(last.args[1].ID)

\* the same for the Save of src/main/repository_test.go alone
C13a_InsertWhenEmptyReplaceWhenNot_main ==
    last.op = "Save_main" => C13_InsertWhenEmptyReplaceWhenNot

\* the records passed with an empty identity hold, in the caller's own
\* copy after the call, the identity the returned records hold
CallerPopulated ==
    \A k \in 1..Len(last.args) :
        IsZero(last.args[k].ID)
            => /\ ~IsZero(last.caller[k].ID)
               /\ last.caller[k].ID = last.out[k].ID

\* C14: after a successful Save or SaveAll of a record with an empty
\* identity, the identity is populated in the caller's own record (the
\* value or slice element passed in), not only in the returned record, and
\* Save and SaveAll behave the same in this respect.
C14_CallerRecordPopulated ==
    last.op \in {"Save", "SaveAll"} /\ last.err = NoErr => CallerPopulated

\* the same for SaveAll alone
C14a_CallerSlicePopulated ==
    last.op = "SaveAll" /\ last.err = NoErr => CallerPopulated


---------------------------------------------------------------------------
(* Properties of templates and their parameters.                           *)

TemplateTerminals == {"Count_querybuilder", "QueryMany_querybuilder", "Delete_querybuilder"}

\* the latest call was Filter of part_004 and the text it rendered does not
\* decode
MalformedFilterCall ==
    /\ last.op = "Filter" /\ prev.op = "Filter"
    /\ ~UnmarshalExtJSON(replaceParams(prev.args[1], prev.args[2])).ok

\* the latest call was a terminal call of querybuilder.go and the text it
\* rendered from the template of the builder does not decode
MalformedTerminalCall ==
    /\ last.op \in TemplateTerminals /\ qb.text # <<>>
    /\ ~UnmarshalExtJSON(replaceParams(qb.text, Undotted(last.args))).ok

\* C15: a filter text that is malformed after substitution makes the
\* builder return an error that names the clause; the builder does not
\* abort the caller, and no find, count or delete request is sent.
C15_MalformedClauseIsAnError ==
    MalformedFilterCall \/ MalformedTerminalCall
        => /\ last.err = ErrParsingQuery
           /\ last.reqs = <<>>

\* the same for the terminal calls of src/src/querybuilder.go alone
C15a_MalformedClauseIsAnError_querybuilder ==
    MalformedTerminalCall
        => /\ last.err = ErrParsingQuery
           /\ last.reqs = <<>>


\* the numbers of the placeholders of a template: after each question mark,
\* the digits that follow it
PlaceholderNumbers(text) ==
    {NumberOf(text, i + 1, DigitsEnd(text, i + 1), 0) :
        i \in {i \in 1..Len(text) : text[i] = "?" /\ IsDigit(Tok(text, i + 1))}}

\* as many parameters as the template has distinct placeholders
CountsAgree(text, params) == Len(params) = Cardinality(PlaceholderNumbers(text))

\* a terminal call of part_004 on a builder whose filter was rendered by
\* Filter with a parameter count that differs
MiscountedFilterCall ==
    /\ last.op \in {"QueryMany", "Count", "Delete"}
    /\ prev.op = "Filter"
    /\ ~CountsAgree(prev.args[1], prev.args[2])

\* a terminal call of querybuilder.go with a parameter count that differs
MiscountedTerminalCall ==
    /\ last.op \in TemplateTerminals /\ qb.text # <<>>
    /\ ~CountsAgree(qb.text, last.args)

\* C16: when the number of parameters differs from the number of distinct
\* placeholders of the template, too few or too many, the terminal call
\* fails with an error and no request is sent.
C16_ParameterCountChecked ==
    MiscountedFilterCall \/ MiscountedTerminalCall
        => /\ last.err # NoErr
           /\ last.reqs = <<>>


\* the serialization of a parameter: a string between double quotes,
\* anything else as structured-data text
Serialized(p) == IF p.t = "str" THEN <<Quote>> \o p.s \o <<Quote>> ELSE JsonMarshal(p)

\* every placeholder replaced at once: the text is read from position i; a
\* question mark followed by the digits of a number k in 1..n gives the
\* serialization of parameter k, any other token is copied
RECURSIVE RenderedFrom(_, _, _)
RenderedFrom(text, params, i) ==
    IF i > Len(text) THEN <<>>
    ELSE IF /\ text[i] = "?" /\ IsDigit(Tok(text, i + 1))
            /\ NumberOf(text, i + 1, DigitsEnd(text, i + 1), 0) \in 1..Len(params)
         THEN Serialized(params[NumberOf(text, i + 1, DigitsEnd(text, i + 1), 0)])
              \o RenderedFrom(text, params, DigitsEnd(text, i + 1))
         ELSE <<text[i]>> \o RenderedFrom(text, params, i + 1)

Rendering == last.op \in {"replaceParams", "replaceParams_simplequery"}

\* C17: rendering a template with parameters p1..pn replaces each
\* occurrence of ?k, for k in 1..n and also for k of 10 and more, by the
\* serialization of pk, and leaves every other character unchanged. Stated
\* for templates whose placeholders all have a parameter.
C17_EveryPlaceholderRendered ==
    Rendering /\ PlaceholderNumbers(last.args[1]) \subseteq 1..Len(last.args[2])
        => last.out[1] = RenderedFrom(last.args[1], last.args[2], 1)

\* the same for replaceParams of part_004 and placeholders of one digit
C17a_OneDigitPlaceholderRendered ==
    (/\ last.op = "replaceParams"
     /\ PlaceholderNumbers(last.args[1]) \subseteq 1..Len(last.args[2])
     /\ (\A k \in PlaceholderNumbers(last.args[1]) : k < Len(DigitTokens)))
        => last.out[1] = RenderedFrom(last.args[1], last.args[2], 1)


---------------------------------------------------------------------------
(* Properties of failures and cursors.                                     *)

\* C18: a failure of the store during FindById, QueryOne, QueryMany, Count,
\* Delete, Save, SaveAll, AggregateOne or AggregateMultiple, a failure to
\* advance or decode a cursor included, is returned to the caller: no
\* operation returns a nil error after the store failed.
C18_StoreFailureReturned ==
    last.failed # NoFailure => last.err # NoErr

\* the same for every operation but FindById of part_000 and AggregateOne
C18a_StoreFailureReturned_others ==
    last.op \notin {"FindById_part000", "AggregateOne"} => C18_StoreFailureReturned

CursorOperations == {"FindAll", "FindByIds", "QueryMany", "AggregateOne", "AggregateMultiple"}

\* C19: in FindAll, FindByIds, QueryMany, AggregateOne and
\* AggregateMultiple a cursor the store handed back is released exactly
\* once before the operation returns, on success and on every error path;
\* when the store returned an error instead of a cursor nothing is released.
C19_CursorReleasedOnce ==
    last.op \in CursorOperations
        => /\ last.cursor.handed = (last.failed # CallFails)
           /\ last.cursor.handed => last.cursor.released = 1 /\ ~last.cursor.open
           /\ ~last.cursor.handed => last.cursor.released = 0

\* AggregateOne returned an error after the store had handed back a cursor
C19_Witness ==
    /\ last.op = "AggregateOne"
    /\ last.failed = DecodeFails
    /\ last.err = ErrStore
    /\ last.cursor.handed


---------------------------------------------------------------------------
(* Properties of the repository value.                                     *)

\* the repository holds the collection it was constructed on, its cached
\* index is that of the field annotated as the identity, and Save and
\* SaveAll reach the identity through it
LocatorResolved ==
    /\ repo.collection = TestCollection
    /\ "_id" \in Range(IdField(repo).bson)
    /\ last.op \in {"Save", "SaveAll"} => last.err # ErrPanic

---------------------------------------------------------------------------
(* Properties of concurrent callers.                                       *)

AllReturned ==
    \A c \in Callers : calls[c].pc \in {"idle", "returned"} /\ calls[c].err = NoErr

\* C21: under every interleaving of Save and SaveAll calls of several
\* callers on one repository, each request being atomic, the store never
\* holds two documents with the same identity, and once every call has
\* returned successfully it holds one document for each identity saved.
C21_ConcurrentSavesKeepIdentitiesUnique ==
    /\ UniqueIds(store)
    /\ AllReturned =>
           \A c \in Callers : \A k \in 1..Len(calls[c].items) :
               Cardinality(DocsWithId(store, calls[c].items[k].ID)) = 1

\* two callers saved a record under the same identity, the request of one
\* served while the call of the other was in flight
C21_Witness ==
    /\ AllReturned
    /\ \E c, d \in Callers :
           /\ c # d
           /\ calls[c].pc = "returned" /\ calls[d].pc = "returned"
           /\ calls[c].overlapped
           /\ calls[c].items[1].ID = calls[d].items[1].ID


---------------------------------------------------------------------------
(* Properties of identity resolution and index definitions.                *)

Constructions ==
    {"NewMongoRepository", "NewMongoRepository_main", "NewMongoRepository_root"}

\* the first value of the field's bson tag is _id
PrimaryId(field) ==
    field.bson # <<>> /\ TrimSpace(StringsSplit(field.bson, ",")[1]) = <<"_id">>

\* the first field of T, in declaration order, whose primary value is _id
FirstPrimaryId(T, i) ==
    /\ i \in 1..Len(T)
    /\ PrimaryId(T[i])
    /\ \A j \in 1..(i - 1) : ~PrimaryId(T[j])

\* C22: identity resolution scans the fields in declaration order and
\* selects the first field whose bson annotation has _id as its first value:
\* a type with such a field is not refused for lacking an identity, a field
\* that carries _id only in a later option position is not selected, and no
\* field after the first match is selected.
C22_IdentityIsFirstPrimaryField ==
    last.op \in Constructions
        => /\ (\E i \in 1..Len(last.args[1]) : PrimaryId(last.args[1][i]))
                  => last.err # ErrNoIdField
           /\ (repo.made => FirstPrimaryId(repo.T, repo.idFieldIndex + 1))

\* the same for a construction of src/src/repository.go for a record type
\* whose fields carry _id as the first value of the tag or not at all
PrimaryWhereAnnotated(T) == \A i \in 1..Len(T) : HasIdTag(T[i]) => PrimaryId(T[i])

C22a_IdentityIsFirstAnnotatedField ==
    (last.op = "NewMongoRepository" /\ PrimaryWhereAnnotated(last.args[1]))
        => C22_IdentityIsFirstPrimaryField


\* the fields of T that carry an index annotation, in declaration order
IndexedFields(T) == SelectSeq(T, LAMBDA f : f.index # <<>>)

\* the index definitions of the one multi-index request of the construction
SimpleDefinitions ==
    IF last.reqs # <<>> /\ last.reqs[1].kind = "CreateMany" THEN last.reqs[1].docs ELSE <<>>

\* the definition is keyed by the stored name of the field alone, with a
\* recognized ordering or kind as the value of the key
DefinitionOf(field, index) ==
    /\ Len(index.keys) = 1
    /\ index.keys[1].key = getFieldName(field)
    /\ index.keys[1].kind \in IndexKinds \ {NullV}

\* a construction of src/src/repository.go that resolved the identity field
\* of a record type whose index annotations hold recognized tokens only
IndexesRead ==
    /\ last.op = "NewMongoRepository"
    /\ last.err # ErrNoIdField
    /\ ~UnknownToken(last.args[1])

\* C23: for every field whose index annotation holds recognized tokens,
\* exactly one index definition is produced, keyed by the stored name of the
\* field, and the value of the key is one recognized ordering or kind (1,
\* -1, text, 2dsphere); also when the annotation lists only modifiers or
\* more than one ordering or kind.
C23_OneDefinitionPerAnnotatedField ==
    IndexesRead
        => /\ Len(SimpleDefinitions) = Len(IndexedFields(last.args[1]))
           /\ \A k \in 1..Len(SimpleDefinitions) :
                  DefinitionOf(IndexedFields(last.args[1])[k], SimpleDefinitions[k])

\* the annotation of every indexed field names an ordering or kind
KindNamed(T) ==
    \A i \in 1..Len(T) :
        T[i].index # <<>>
            => \E tok \in Range(StringsSplit(T[i].index, ",")) :
                   TrimSpace(tok) \in IndexTokens \ {<<"unique">>, <<"sparse">>}

\* the same for record types whose annotations each name an ordering or kind
C23a_OneDefinitionPerKindedField ==
    IndexesRead /\ KindNamed(last.args[1]) => C23_OneDefinitionPerAnnotatedField


---------------------------------------------------------------------------
(* Properties of compound indexes and of the index requests.               *)

\* the compound-index annotation of T: the cindex text of the field that
\* carries one, the empty text when no field does
CindexOf(T) ==
    IF \E i \in 1..Len(T) : T[i].cindex # <<>>
    THEN T[CHOOSE i \in 1..Len(T) : T[i].cindex # <<>>].cindex
    ELSE <<>>

\* the brace groups of an annotation and the pairs of a group, as written
GroupsOf(text) == StringsSplit(Without(Without(text, "{"), "}"), ";")

PairsOf(group) == StringsSplit(group, ",")

WrongArity(pair) == Len(StringsSplit(pair, ":")) # 2

WrongOrder(pair) == ~WrongArity(pair) /\ ~Atoi(StringsSplit(pair, ":")[2]).ok

PairsIn(text) ==
    UNION {Range(PairsOf(GroupsOf(text)[g])) : g \in 1..Len(GroupsOf(text))}

WellFormed(text) == \A pair \in PairsIn(text) : ~WrongArity(pair) /\ ~WrongOrder(pair)

\* the fragments of a malformed annotation an error can name: a part of
\* the wrong arity, or the order of a pair that is no integer
OffendingFragments(text) ==
    {pair \in PairsIn(text) : WrongArity(pair)}
        \cup {StringsSplit(pair, ":")[2] : pair \in {q \in PairsIn(text) : WrongOrder(q)}}

\* the index a group asks for: its pairs as keys, in the order written
GroupIndex(group) ==
    IndexModel([k \in 1..Len(PairsOf(group)) |->
                   IndexKey(StringsSplit(PairsOf(group)[k], ":")[1],
                            IntV(Atoi(StringsSplit(PairsOf(group)[k], ":")[2]).n))],
               FALSE, FALSE)

\* the single-index requests of the construction, in the order sent
CompoundRequests == SelectSeq(last.reqs, LAMBDA r : r.kind = "CreateOne")

\* a construction that came to read the compound-index annotation and that
\* the store did not fail
CompoundRead ==
    /\ last.op \in {"NewMongoRepository", "NewMongoRepository_main"}
    /\ last.err \notin {ErrNoIdField, ErrUnsupportedIndexTag, ErrStore, ErrCreateIndex}

OneRequestPerGroup(text) ==
    /\ last.err = NoErr
    /\ repo.made
    /\ Len(CompoundRequests) = Len(GroupsOf(text))
    /\ \A g \in 1..Len(CompoundRequests) :
           CompoundRequests[g].docs = <<GroupIndex(GroupsOf(text)[g])>>

FailsNamingFragment(text) ==
    /\ last.err \in {ErrCompoundFormat, ErrCompoundOrder}
    /\ ~repo.made
    /\ last.out \in OffendingFragments(text)

CompoundOutcome(text) ==
    IF text = <<>> THEN last.err = NoErr /\ repo.made /\ CompoundRequests = <<>>
    ELSE IF WellFormed(text) THEN OneRequestPerGroup(text)
    ELSE FailsNamingFragment(text)

\* C24: for every compound-index annotation of the record type: when every
\* brace group is a comma-separated list of field:order pairs with integer
\* orders, one index per group is requested, in group order, with its keys
\* in the order written; when a pair has the wrong arity or an order that
\* is no integer, construction fails with an error that contains the
\* offending fragment; without the annotation construction succeeds with no
\* compound index.
C24_CompoundAnnotationRequested ==
    CompoundRead => CompoundOutcome(CindexOf(last.args[1]))

\* the same for the annotation declared on the identity field
C24a_IdentityCompoundAnnotationRequested ==
    CompoundRead
        => CompoundOutcome(last.args[1][setIdField(last.args[1]).idFieldIndex + 1].cindex)


IndexRequestKinds == {"CreateMany", "CreateOne"}

\* the requests of the latest operation that ask the store for an index
IndexRequests == SelectSeq(last.reqs, LAMBDA r : r.kind \in IndexRequestKinds)

\* the requests a construction for T sends when text is the compound-index
\* annotation: the multi-index request with one definition per annotated
\* field, when a field is annotated, and then one single-index request per
\* group
RequestedOnce(T, text) ==
    /\ Len(IndexRequests) =
           (IF IndexedFields(T) # <<>> THEN 1 ELSE 0)
               + (IF text # <<>> THEN Len(GroupsOf(text)) ELSE 0)
    /\ IndexedFields(T) # <<>>
           => /\ IndexRequests[1].kind = "CreateMany"
              /\ Len(IndexRequests[1].docs) = Len(IndexedFields(T))
    /\ \A k \in 1..Len(IndexRequests) :
           k > (IF IndexedFields(T) # <<>> THEN 1 ELSE 0)
               => /\ IndexRequests[k].kind = "CreateOne"
                  /\ IndexRequests[k].docs =
                         <<GroupIndex(GroupsOf(text)[k - (IF IndexedFields(T) # <<>> THEN 1 ELSE 0)])>>

ConstructedNow == last.op = "NewMongoRepository" /\ last.err = NoErr

\* C25: index-creation requests are sent during construction only and each
\* declared index is requested exactly once: the simple indexes in one
\* multi-index request, sent only when a field is annotated, each compound
\* group in a single-index request of its own after it; no operation on a
\* constructed repository sends an index-creation request.
C25_IndexesRequestedOnceAtConstruction ==
    /\ ConstructedNow => RequestedOnce(last.args[1], CindexOf(last.args[1]))
    /\ last.op \notin Constructions => IndexRequests = <<>>

\* the same with the compound groups of the identity field's annotation
C25a_IdentityIndexesRequestedOnce ==
    /\ ConstructedNow
           => RequestedOnce(last.args[1],
                            last.args[1][setIdField(last.args[1]).idFieldIndex + 1].cindex)
    /\ last.op \notin Constructions => IndexRequests = <<>>


\* the errors of a construction that refuse an annotation
AnnotationErrors ==
    {ErrNoIdField, ErrUnsupportedIndexTag, ErrCompoundFormat, ErrCompoundOrder}

\* C26: reading the annotations performs no store call: every identity,
\* simple-index and compound-index annotation is validated before the first
\* index-creation request, so a construction that fails on a malformed
\* annotation has sent no index-creation request.
C26_AnnotationsValidatedBeforeRequests ==
    last.op = "NewMongoRepository" /\ last.err \in AnnotationErrors
        => IndexRequests = <<>>

\* the same for the identity and the simple-index annotations
C26a_SimpleAnnotationsValidatedBeforeRequests ==
    last.op = "NewMongoRepository" /\ last.err \in {ErrNoIdField, ErrUnsupportedIndexTag}
        => IndexRequests = <<>>


---------------------------------------------------------------------------
(* Properties of SaveAll.                                                  *)

\* the writes of the one bulk request of the latest SaveAll
BulkWrites ==
    IF Len(last.reqs) = 1 /\ last.reqs[1].kind = "BulkWrite" THEN last.reqs[1].docs ELSE <<>>

\* the k-th write carries the k-th item passed in
WriteOfItem(k) ==
    /\ BulkWrites[k].doc.name = last.args[k].Name
    /\ BulkWrites[k].doc.age = last.args[k].Age

\* the kind of write the identity of the item passed in asks for
DecidedByIdentity(k) ==
    IF IsZero(last.args[k].ID)
    THEN BulkWrites[k].model = "InsertOne"
    ELSE /\ BulkWrites[k].model = "ReplaceOneUpsert"
         /\ BulkWrites[k].filter = IdFilter(last.args[k].ID)

OneBulkWriteInOrder ==
    /\ Len(last.reqs) = 1
    /\ Len(BulkWrites) = Len(last.args)
    /\ \A k \in 1..Len(BulkWrites) : WriteOfItem(k)
    /\ last.failed # NoFailure => last.err # NoErr

\* C27: SaveAll decides between an insert and a replace-with-upsert for
\* each item from the identity of that item alone, submits all items as one
\* bulk write request with one write per input item in input order, and
\* returns an error whenever that request fails.
C27_BulkWriteDecidedPerItem ==
    last.op = "SaveAll"
        => /\ OneBulkWriteInOrder
           /\ \A k \in 1..Len(BulkWrites) : DecidedByIdentity(k)

\* every write is a replace-with-upsert under the identity of its item, the
\* one passed in or, for an empty one, the one SaveAll generated for it
UpsertUnderOwnIdentity(k) ==
    /\ BulkWrites[k].model = "ReplaceOneUpsert"
    /\ BulkWrites[k].filter = IdFilter(last.out[k].ID)
    /\ BulkWrites[k].doc.id = last.out[k].ID
    /\ ~IsZero(last.out[k].ID)
    /\ ~IsZero(last.args[k].ID) => last.out[k].ID = last.args[k].ID

C27a_BulkWriteOfUpserts ==
    last.op = "SaveAll"
        => /\ OneBulkWriteInOrder
           /\ \A k \in 1..Len(BulkWrites) : UpsertUnderOwnIdentity(k)


---------------------------------------------------------------------------
(* Properties of sort texts.                                               *)

\* the (field, direction) entries of a sort text in the order written
RECURSIVE EntriesOf(_)
EntriesOf(text) == IF text = <<>> THEN <<>> ELSE Head(text) \o EntriesOf(Tail(text))

\* a query sent for a builder that was given a sort text
SortedFromText ==
    \/ last.op = "QueryMany" /\ prev.op = "Sort"
    \/ last.op = "QueryMany_querybuilder" /\ prev.op = "Sort_querybuilder"

\* C28: for every sort text the sort clause handed to the store lists the
\* (field, direction) entries in the order they have in the text, and the
\* same text always gives the same clause.
C28_SortClauseInTextOrder ==
    /\ SortedFromText => last.reqs[1].sort = Some(EntriesOf(prev.args[1]))
    /\ last.op = "ToClassicQuery" => last.out = EntriesOf(last.args[1])

\* every object of the text holds one member
OneMemberEach(text) == \A k \in 1..Len(text) : Len(text[k]) = 1

\* the same for the array texts that name one field per object
C28a_SortClauseInArrayOrder ==
    (SortedFromText /\ OneMemberEach(prev.args[1]))
        => last.reqs[1].sort = Some(EntriesOf(prev.args[1]))


---------------------------------------------------------------------------
(* Properties of Count and Delete under the other options of the builder.  *)

\* the request carries the builder's filter and none of its other options
FilterOnly(req) ==
    /\ req.filter = qb.filter
    /\ req.sort = None /\ req.proj = None /\ req.skip = None /\ req.limit = None

\* C29: Count and Delete started from a builder act on every document that
\* matches the builder's filter, whatever sort, projection or pagination
\* was set on the builder: with a page size of 1 Delete still removes all
\* matching documents and Count still counts all of them.
C29_CountAndDeleteIgnoreOptions ==
    (last.op \in {"Count", "Delete"} /\ last.err = NoErr)
        => /\ Len(last.reqs) = 1 /\ FilterOnly(last.reqs[1])
           /\ last.n = Cardinality(MatchingIn(last.pre, qb.filter))
           /\ store = IF last.op = "Count" THEN last.pre ELSE Reject(last.pre, qb.filter)

\* every option set, page size 1, and two documents counted
C29_Witness ==
    /\ last.op = "Count"
    /\ qb.sort # None /\ qb.projection # None
    /\ qb.pageable = <<1, 1>>
    /\ ~qb.filter.isNil
    /\ last.n = 2
    /\ Len(last.pre) = 3


---------------------------------------------------------------------------
(* Properties of textual parameters.                                       *)

\* the documents of coll whose name is value
Named(coll, value) == {k \in 1..Len(coll) : coll[k].name = value}

\* the filter is one equality test of name against value
NameEquality(filter, value) == filter = M({NameIs(value)})

\* Filter of part_004 was called with the name template and one textual
\* parameter; the parameter
FilteredByName == prev.op = "Filter" /\ prev.args[1] = NameTemplate

NameGiven == prev.args[2][1].s

\* the latest operation found or counted exactly the documents named value
ExactlyNamed(value) ==
    /\ last.err = NoErr
    /\ NameEquality(last.reqs[1].filter, value)
    /\ last.op = "Count" => last.n = Cardinality(Named(last.pre, value))
    /\ last.op # "Count"
           => /\ Len(last.out) = Cardinality(Named(last.pre, value))
              /\ \A k \in 1..Len(last.out) : last.out[k].Name = value

\* C30: for the template {"name": ?1} and every textual parameter, also
\* one that holds a double quote, a backslash or the text of a placeholder,
\* the filter built is one equality test on name and matches exactly the
\* documents whose name equals the parameter: the content of the parameter
\* never changes the shape of the filter.
C30_TextParameterKeepsFilterShape ==
    /\ FilteredByName
           => /\ last.err # ErrPanic
              /\ qb.made => NameEquality(qb.filter, NameGiven)
              /\ last.op \in {"QueryMany", "Count"} => ExactlyNamed(NameGiven)
    /\ (last.op = "QueryMany_querybuilder" /\ qb.text = NameTemplate)
           => ExactlyNamed(last.args[1].s)

\* a text without double quote and backslash
PlainText(value) == Quote \notin Range(value) /\ Backslash \notin Range(value)

\* the same for the builder of part_004 and parameters that hold neither a
\* double quote nor a backslash
C30a_PlainTextParameterKeepsFilterShape ==
    (FilteredByName /\ PlainText(NameGiven))
        => /\ last.err # ErrPanic
           /\ qb.made => NameEquality(qb.filter, NameGiven)
           /\ last.op \in {"QueryMany", "Count"} => ExactlyNamed(NameGiven)

====
